---------------------------- MODULE Spec2Model ----------------------------
(***************************************************************************)
(* A model of the versioned districting engine of                          *)
(* django/publicmapping/redistricting/models.py: the Plan mutation         *)
(* operations (add_geounits, paste_districts, combine_districts,           *)
(* fix_unassigned), the version queries and purges they rely on, the       *)
(* mixed-level geounit selector and the incremental district statistics.   *)
(*                                                                         *)
(* Geometry is modelled over a fixed catalog of base geounits: a geometry  *)
(* is the set of base geounits it covers (every geounit of a coarser level *)
(* is the union of its base descendants), the centroid of a base geounit   *)
(* lies in a geometry iff the geounit belongs to the set, and two          *)
(* geometries touch iff they hold adjacent base geounits.  A geometry that *)
(* is None in the code is a row whose has_geom is FALSE.                   *)
(***************************************************************************)
EXTENDS Integers, Sequences, FiniteSets, TLC

VARIABLES
    rows,      \* the redistricting_district table of one plan: a set of rows
    nextId,    \* the next primary key the table hands out
    plan,      \* the Plan row: version, min_version, is_valid
    last,      \* the call that produced this state, its arguments and outcome
    planscores,     \* the redistricting_computedplanscore table of the plan
    districtscores, \* the redistricting_computeddistrictscore table
    requests        \* the mutation calls in flight: each has its Plan object

vars == <<rows, nextId, plan, last, planscores, districtscores, requests>>

---------------------------------------------------------------------------
(* Bounds of the model *)

\* number of base geounits in the catalog
NumBase == 4
\* plan.version at which the model stops issuing edits that advance it
MaxVersion == 2
\* greatest number of geounits a caller selects for add_geounits
MaxSelection == 2
\* greatest district_id a caller passes to add_geounits
MaxDistrictId == 2
\* settings.MAX_UNDOS_DURING_EDIT of the deployment
MAX_UNDOS_DURING_EDIT == 1

---------------------------------------------------------------------------
(* The read-only catalog: geolevels, geounits, subjects, characteristics *)

None == -1

BaseUnits == 1 .. NumBase

\* Two nested geolevels; a county holds two consecutive base geounits.
NumCounties == (NumBase + 1) \div 2

\* LegislativeBody.get_geolevels() of the body: coarsest first, base last.
GeoLevels == <<"county", "base">>

base_geolevel == GeoLevels[Len(GeoLevels)]

UnitsAt(level) ==
    IF level = "base" THEN {<<"base", i>> : i \in BaseUnits}
    ELSE {<<"county", c>> : c \in 1 .. NumCounties}

\* Geounit.geom: the base geounits a geounit covers.
Extent(u) ==
    IF u[1] = "base" THEN {u[2]}
    ELSE {b \in BaseUnits : (b + 1) \div 2 = u[2]}

\* Union of the geometries of a set of geounits (collect / unionagg).
Collect(units) == UNION {Extent(u) : u \in units}

\* Base geounit 1 is an enclave of base geounit 2; from 2 on the base
\* geounits form a chain.  Adjacent geounits share a border.
Adjacent(a, b) == a - b = 1 \/ b - a = 1

\* GEOS intersects: the geometries share area or share a border.
Intersects(g, h) ==
    \/ g \cap h # {}
    \/ \E a \in g, b \in h : Adjacent(a, b)

\* The subjects; subject 2 is shown as a percentage of subject 1.
Subjects == {1, 2}

percentage_denominator(s) == IF s = 2 THEN 1 ELSE None

RECURSIVE Pow2(_)
Pow2(n) == IF n = 0 THEN 1 ELSE 2 * Pow2(n - 1)

\* Characteristic.number of a base geounit.
BaseCharacteristic(b, s) == IF s = 1 THEN 2 * Pow2(b - 1) ELSE 1

RECURSIVE SumBase(_, _)
SumBase(bs, s) ==
    IF bs = {} THEN 0
    ELSE LET b == CHOOSE x \in bs : TRUE
         IN BaseCharacteristic(b, s) + SumBase(bs \ {b}, s)

\* Characteristic.number of any geounit: a coarser geounit carries the sum
\* of its base descendants.
Characteristic(u, s) == SumBase(Extent(u), s)

RECURSIVE SumCharacteristic(_, _)
\* Characteristic.objects.filter(geounit__in=geounits, subject=s)
\*     .aggregate(Sum('number')); None when no Characteristic row matches.
SumCharacteristic(geounits, s) ==
    IF geounits = {} THEN 0
    ELSE LET u == CHOOSE x \in geounits : TRUE
         IN Characteristic(u, s) + SumCharacteristic(geounits \ {u}, s)

---------------------------------------------------------------------------
(* District rows and the version queries of Plan *)

\* ComputedCharacteristic rows of a district row: a function from the
\* subjects that have a row to [number, percentage].
NoStats == [s \in {} |-> [number |-> 0, percentage |-> None]]

\* Plan.get_districts_at_version: per district_id the rows that carry the
\* greatest version <= version.
get_districts_at_version(rs, version) ==
    {d \in rs :
        /\ d.version <= version
        /\ \A e \in rs :
              (e.district_id = d.district_id /\ e.version <= version)
                  => e.version <= d.version}

\* District.sortKey as a number: numbered districts by their number, then
\* "Unassigned" (district_id 0), whose name sorts after every digit string.
sortKey(d) == IF d.district_id = 0 THEN 1000 ELSE d.district_id

RECURSIVE Sorted(_)
\* sorted(list(...), key=sortKey): a stable sort of the rows in table order.
Sorted(ds) ==
    IF ds = {} THEN <<>>
    ELSE LET d == CHOOSE x \in ds :
                     \A y \in ds :
                        \/ sortKey(x) < sortKey(y)
                        \/ (sortKey(x) = sortKey(y) /\ x.id <= y.id)
         IN <<d>> \o Sorted(ds \ {d})

\* The distinct versions stored for the plan.
StoredVersions(rs) == {d.version : d \in rs}

\* The versions counted from the oldest (order_by('version')).
get_nth_previous_version_ascending(rs, steps) ==
    LET versions == StoredVersions(rs)
    IN IF steps < Cardinality(versions)
       THEN CHOOSE v \in versions :
                Cardinality({w \in versions : w < v}) = steps
       ELSE 0

\* Plan.get_nth_previous_version
get_nth_previous_version(rs, steps) ==
    LET versions == StoredVersions(rs)
    IN IF steps < Cardinality(versions)
       THEN CHOOSE v \in versions :
                Cardinality({w \in versions : w > v}) = steps
       ELSE 0

\* A purge that drops every row older than `before`, also the rows that are
\* still the latest of their district at `before`.
purge_every_older_row(rs, before, after) ==
    IF before = None /\ after = None THEN rs
    ELSE IF before # None
    THEN IF before <= 0 THEN rs
         ELSE {r \in rs : ~ (r.version < before)}
    ELSE {r \in rs : ~ (r.version > after)}

\* A purge whose filter on the previous versions reads version <= instead
\* of version <: the as-of row of each district goes too.
purge_with_snapshot(rs, before, after) ==
    IF before = None /\ after = None THEN rs
    ELSE IF before # None
    THEN IF before <= 0 THEN rs
         ELSE LET ds == get_districts_at_version(rs, before)
              IN {r \in rs :
                    ~ \E d \in ds : /\ r.district_id = d.district_id
                                    /\ r.version <= d.version}
    ELSE {r \in rs : ~ (r.version > after)}

\* Plan.purge(before=..., after=...); None stands for an omitted keyword.
purge(rs, before, after) ==
    IF before = None /\ after = None THEN rs
    ELSE IF before # None
    THEN IF before <= 0 THEN rs
         ELSE LET ds == get_districts_at_version(rs, before)
              IN {r \in rs :
                    ~ \E d \in ds : /\ r.district_id = d.district_id
                                    /\ r.version < d.version}
    ELSE {r \in rs : ~ (r.version > after)}

\* An undo limit that is never applied.
purge_beyond_nth_step_never(db, steps) == db

\* Plan.purge_beyond_nth_step on the database record db.
purge_beyond_nth_step(db, steps) ==
    IF steps >= 0
    THEN LET prever == get_nth_previous_version(db.rows, steps)
         IN IF prever > db.plan.min_version
            THEN [db EXCEPT !.rows = purge(db.rows, prever, None),
                            !.plan.min_version = prever]
            ELSE db
    ELSE db

\* A test for the latest version that forgets the filter on district_id.
is_latest_version_of_any(rs, district) ==
    \A e \in rs : e.version <= district.version

\* District.is_latest_version
is_latest_version(rs, district) ==
    \A e \in rs :
        e.district_id = district.district_id => e.version <= district.version

\* Model.save() of a new row (id = None): the table hands out the next key.
save_new(db, row) ==
    [db EXCEPT !.rows = @ \cup {[row EXCEPT !.id = db.nextId]},
               !.nextId = @ + 1]

---------------------------------------------------------------------------
(* Statistics engine *)

\* Subject.sort_key of the subjects of the catalog: their position in a
\* list of subjects.
sort_key(s) == s

\* The orders in which the members of ss can be laid out.
Arrangements(ss) ==
    {o \in [1 .. Cardinality(ss) -> ss] :
        \A i, j \in 1 .. Cardinality(ss) : i # j => o[i] # o[j]}

\* Subject.objects.order_by('-percentage_denominator') for subjects with
\* the denominators `den` and the sort keys `key`: ordering by a ForeignKey
\* orders by the default ordering of the related model (Subject.Meta.ordering
\* is ['sort_key'], line 99), here descending, over an outer join; the
\* subjects without a denominator have NULL there and lead a descending
\* order.  The database is free in the order of equal keys, so the result
\* is the set of the orders it can return.
order_by_percentage_denominator(ss, den, key) ==
    LET rank(s) == IF den[s] = None THEN 1000 ELSE key[den[s]]
    IN {o \in Arrangements(ss) :
           \A i, j \in 1 .. Cardinality(ss) :
              i < j => rank(o[i]) >= rank(o[j])}

\* The order of the subjects of the catalog; it has no equal keys.
SubjectOrder(ss) ==
    CHOOSE o \in order_by_percentage_denominator(ss,
                    [s \in ss |-> percentage_denominator(s)],
                    [s \in ss |-> sort_key(s)]) : TRUE

\* computed.number / denominator.number, kept to two decimal places.
Quotient(number, denominator) == (number * 100) \div denominator

RECURSIVE delta_loop(_, _, _, _, _)
\* The loop of District.delta_stats (lines 1838-1867) over the subjects
\* `order` still to process.  acc is [stats, raised]; aggregate[s] is the
\* sum of the Characteristic numbers of the geounits for subject s, None
\* when no Characteristic row matches; den[s] is the percentage denominator
\* of s.  ComputedCharacteristic.objects.get of line 1857 raises
\* DoesNotExist when the district has no row for the denominator.
delta_loop(acc, order, aggregate, den, combine) ==
    IF order = <<>> \/ acc.raised THEN acc
    ELSE LET subject == Head(order)
             stats == acc.stats
             computed == IF subject \in DOMAIN stats THEN stats[subject]
                         ELSE [number |-> 0, percentage |-> None]
             number == IF combine
                       THEN computed.number + aggregate[subject]
                       ELSE computed.number - aggregate[subject]
             percentage ==
                 IF den[subject] # None
                 THEN IF stats[den[subject]].number > 0
                      THEN Quotient(number, stats[den[subject]].number)
                      ELSE 0
                 ELSE computed.percentage
             saved == [s \in DOMAIN stats \cup {subject} |->
                          IF s = subject
                          THEN [number |-> number, percentage |-> percentage]
                          ELSE stats[s]]
         IN IF aggregate[subject] = None
            THEN delta_loop(acc, Tail(order), aggregate, den, combine)
            ELSE IF den[subject] # None /\ den[subject] \notin DOMAIN stats
            THEN [acc EXCEPT !.raised = TRUE]
            ELSE delta_loop([acc EXCEPT !.stats = saved], Tail(order),
                            aggregate, den, combine)

\* The loop of District.delta_stats for geounits of the catalog.  Every
\* geounit of the catalog has a Characteristic for every subject, so no
\* Characteristic row matches only an empty set of geounits; and the one
\* denominator of the catalog is processed first, so its row is found.
delta_subjects(stats, order, geounits, combine) ==
    delta_loop([stats |-> stats, raised |-> FALSE], order,
               [s \in Subjects |-> IF geounits = {} THEN None
                                   ELSE SumCharacteristic(geounits, s)],
               [s \in Subjects |-> percentage_denominator(s)],
               combine).stats

\* A delta_stats that adds the aggregate whatever `combine` says.
delta_stats_always_adds(stats, geounits, combine) ==
    delta_subjects(stats, SubjectOrder(Subjects), geounits, TRUE)

\* District.delta_stats on the ComputedCharacteristic rows of a district.
delta_stats(stats, geounits, combine) ==
    delta_subjects(stats, SubjectOrder(Subjects), geounits, combine)

---------------------------------------------------------------------------
(* Mixed-level geounit selector *)

\* The query of one pass of get_mixed_geounits over `candidates`: by
\* geometry above the base level, by centroid at the base level.
\* negate is the "NOT st_intersects" form of the first pass outside.
MixedQuery(candidates, level, area, negate) ==
    {u \in candidates :
        IF negate
        THEN IF level # base_geolevel
             THEN ~ Intersects(Extent(u), area)
             ELSE Extent(u) \cap area = {}
        ELSE IF level # base_geolevel
             THEN Extent(u) \subseteq area
             ELSE Extent(u) \cap area # {}}

RECURSIVE mixed_levels(_, _, _, _, _, _, _, _)
\* The loop "for level in levels" of Geounit.get_mixed_geounits, from the
\* i-th level on.
mixed_levels(i, geounit_ids, geolevel, boundary, inside, searching, selection, units) ==
    IF i > Len(GeoLevels) THEN units
    ELSE LET level == GeoLevels[i]
         IN IF geolevel = level
            THEN LET sel == Collect(geounit_ids)
                     found == MixedQuery(geounit_ids, level, boundary,
                                         ~ inside)
                 IN IF level = base_geolevel
                    THEN units \cup found
                    ELSE mixed_levels(i + 1, geounit_ids, geolevel, boundary,
                                      inside, TRUE, sel, units \cup found)
            ELSE IF searching
            THEN LET union == Collect(units)
                     intersects == selection \ union
                     remainder ==
                         IF inside THEN boundary \cap intersects
                         ELSE (selection \ boundary) \cap intersects
                     found == IF remainder # {}
                              THEN MixedQuery(UnitsAt(level), level,
                                              remainder, FALSE)
                              ELSE {}
                 IN mixed_levels(i + 1, geounit_ids, geolevel, boundary,
                                 inside, searching, selection,
                                 units \cup found)
            ELSE mixed_levels(i + 1, geounit_ids, geolevel, boundary,
                              inside, searching, selection, units)

\* Only the first pass, at the geolevel of the selection.
get_mixed_geounits_one_pass(geounit_ids, geolevel, boundary, inside) ==
    IF boundary = {} /\ inside THEN {}
    ELSE MixedQuery(geounit_ids, geolevel, boundary, ~ inside)

\* Geounit.get_mixed_geounits; boundary {} stands for None and for an empty
\* geometry alike (both are falsy).  The geometry kernel is taken not to
\* throw inside the selector.
get_mixed_geounits(geounit_ids, geolevel, boundary, inside) ==
    IF boundary = {} /\ inside THEN {}
    ELSE mixed_levels(1, geounit_ids, geolevel, boundary, inside, FALSE,
                      {}, {})

---------------------------------------------------------------------------
(* Plan.add_geounits *)

\* Without the decorator the writes made before the exception stay.
commit_never_rolls_back(before, after, raised) == after

\* @transaction.commit_on_success: an exception that leaves the method rolls
\* every write of the call back.
commit_on_success(before, after, raised) == IF raised THEN before ELSE after

\* A copy stamped with the current plan version instead of the next.
CopyForwardStale(db, district) ==
    save_new(db, [district EXCEPT !.version = db.plan.version])

\* A save that keeps the key of the row copied: the stored row is
\* overwritten.
CopyForwardInPlace(db, district) ==
    [db EXCEPT !.rows = {r \in @ : r.id # district.id}
                           \cup {[district EXCEPT !.version = db.plan.version + 1]}]

\* A copy of `district` saved as a new row of the next plan version.
CopyForward(db, district) ==
    save_new(db, [district EXCEPT !.version = db.plan.version + 1])

\* The condition "any((ds.is_locked and ds.district_id = districtid) ...)".
target_is_locked_never(districts, districtid) == FALSE

target_is_locked(districts, districtid) ==
    \E ds \in districts : ds.is_locked /\ ds.district_id = districtid

\* The union of the locked districts (collect), {} when there is none.
locked_geometry(districts) ==
    UNION {d.geom : d \in {x \in districts : x.is_locked}}

\* "incremental.difference(locked)": the locked sections leave the change.
remove_locked_forgotten(incremental, locked) == incremental

remove_locked(incremental, locked) ==
    IF locked # {} THEN incremental \ locked ELSE incremental

RECURSIVE add_loop(_, _, _, _, _, _, _)
\* The loop "for district in districts" of add_geounits over the districts
\* still to visit.  acc is [db, fixed, raised]; geos names the kernel call
\* that throws GEOSException in this call, if any.
add_loop(acc, todo, districtid, geounit_ids, geolevel, incremental, geos) ==
    IF todo = <<>> \/ acc.raised THEN acc
    ELSE
    LET district == Head(todo)
        rest == Tail(todo)
        geounits == get_mixed_geounits(geounit_ids, geolevel,
                                       district.geom, TRUE)
        changed == [district EXCEPT
                      !.geom = district.geom \ incremental,
                      !.stats = delta_stats(district.stats, geounits, FALSE)]
    IN  IF district.district_id = districtid
        THEN add_loop(acc, rest, districtid, geounit_ids, geolevel,
                      incremental, geos)
        ELSE IF ~ district.has_geom
        THEN add_loop(acc, rest, districtid, geounit_ids, geolevel,
                      incremental, geos)
        ELSE IF district.geom \cap incremental = {}
        THEN IF ~ is_latest_version(acc.db.rows, district)
             THEN add_loop([acc EXCEPT !.db = CopyForward(acc.db, district),
                                       !.fixed = TRUE],
                           rest, districtid, geounit_ids, geolevel,
                           incremental, geos)
             ELSE add_loop(acc, rest, districtid, geounit_ids, geolevel,
                           incremental, geos)
        ELSE IF geos = "difference"
        THEN [acc EXCEPT !.fixed = @ \/ geounits # {}, !.raised = TRUE]
        ELSE add_loop([acc EXCEPT !.db = CopyForward(acc.db, changed),
                                  !.fixed = @ \/ geounits # {}],
                      rest, districtid, geounit_ids, geolevel,
                      incremental, geos)

\* Lines 976-996 of add_geounits: the plan is marked invalid and its
\* version advanced, history beyond the undo limit is purged unless the
\* caller keeps old versions, and the temporary row of a new target is
\* deleted.
add_finish(written, new_target, temporary_id, keep_old_versions) ==
    LET versioned == [written EXCEPT !.plan.is_valid = FALSE,
                                     !.plan.version = @ + 1]
        undone == IF MAX_UNDOS_DURING_EDIT > 0 /\ ~ keep_old_versions
                  THEN purge_beyond_nth_step(versioned, MAX_UNDOS_DURING_EDIT)
                  ELSE versioned
    IN  [undone EXCEPT !.rows = {r \in @ : new_target => r.id # temporary_id}]

\* Lines 950-974 of add_geounits: the target takes the incremental
\* geometry and the characteristics of `geounits`, and is saved as a copy at
\* the next version.
add_target(withTarget, target, incremental, geounits) ==
    CopyForward(withTarget,
                [target EXCEPT
                   !.geom = IF target.geom # {}
                            THEN target.geom \cup incremental
                            ELSE incremental,
                   !.has_geom = TRUE,
                   !.stats = delta_stats(target.stats, geounits, TRUE)])

\* Lines 950-996 of add_geounits once no geometry call has thrown: the
\* writes are committed and the call returns whether anything was fixed.
add_written(db, withTarget, target, new_target, incremental, geounits, fixed, keep_old_versions) ==
    [db |-> commit_on_success(db, add_finish(add_target(withTarget, target, incremental, geounits), new_target, target.id, keep_old_versions), FALSE),
     raised |-> FALSE, refused |-> FALSE, ret |-> fixed \/ geounits # {}]

\* Lines 919-996 of add_geounits, after the loop over the districts: the
\* target is found or created (a temporary row at the plan's version), the
\* geounits that fall outside it are selected, and the target is written.
add_to_target(db, looped, targets, lockedGeom, incremental, districtid, geounit_ids, geolevel, keep_old_versions, geos) ==
    LET new_target == targets = <<>>
        temporary == [id |-> looped.db.nextId, district_id |-> districtid,
                      version |-> db.plan.version, geom |-> {},
                      has_geom |-> FALSE, is_locked |-> FALSE,
                      stats |-> NoStats]
        withTarget == IF new_target THEN save_new(looped.db, temporary)
                      ELSE looped.db
        target == IF new_target THEN temporary ELSE targets[Len(targets)]
        bounds == IF lockedGeom # {}
                  THEN IF target.geom # {} THEN target.geom \cup lockedGeom
                       ELSE lockedGeom
                  ELSE target.geom
    IN  IF looped.raised
        THEN [db |-> commit_on_success(db, looped.db, TRUE),
              raised |-> TRUE, refused |-> FALSE, ret |-> FALSE]
        ELSE IF target.geom # {} /\ geos = "union"
        THEN [db |-> commit_on_success(db, withTarget, TRUE),
              raised |-> TRUE, refused |-> FALSE, ret |-> FALSE]
        ELSE add_written(db, withTarget, target, new_target, incremental, get_mixed_geounits(geounit_ids, geolevel, bounds, FALSE), looped.fixed, keep_old_versions)

\* add_geounits with an empty geounit_ids list: unionagg over no Geounit is
\* None.  With locked districts None.difference(locked) raises at line 846,
\* before the purge; without them the newer rows are purged (line 848) and
\* then relate_pattern(None, ...) raises at line 864 for the first other
\* district with a geometry, or the query "... WHERE id IN () AND ..." of
\* get_mixed_geounits (line 943) is refused by the database.  No path
\* returns.
add_nothing(db, purged, lockedGeom) ==
    [db |-> commit_on_success(db, IF lockedGeom # {} THEN db ELSE purged, TRUE),
     raised |-> TRUE, refused |-> FALSE, ret |-> FALSE]

\* Plan.add_geounits (lines 796-996) under @transaction.commit_on_success.
\* The result holds the database after the call, whether the call raised,
\* whether it returned early on a locked target, and the value returned.
add_geounits(db, districtid, geounit_ids, geolevel, version, keep_old_versions, geos) ==
    LET districts == get_districts_at_version(db.rows, version)
        lockedGeom == locked_geometry(districts)
        incremental == remove_locked(Collect(geounit_ids), lockedGeom)
        purged == [db EXCEPT !.rows = purge(db.rows, None, version)]
    IN  IF target_is_locked(districts, districtid)
        THEN [db |-> db, raised |-> FALSE, refused |-> TRUE, ret |-> FALSE]
        ELSE IF geounit_ids = {}
        THEN add_nothing(db, purged, lockedGeom)
        ELSE add_to_target(db, add_loop([db |-> purged, fixed |-> FALSE, raised |-> FALSE], Sorted(districts), districtid, geounit_ids, geolevel, incremental, geos), Sorted({d \in districts : d.district_id = districtid}), lockedGeom, incremental, districtid, geounit_ids, geolevel, keep_old_versions, geos)

---------------------------------------------------------------------------
(* Plan.combine_districts *)

\* greatest number of components a caller passes to combine_districts
MaxComponents == 1

RECURSIVE SumStored(_, _)
\* sum(map(lambda c: c.number, relevant_characteristics)) over the
\* ComputedCharacteristic rows of the rows `members` for one subject.
SumStored(members, subject) ==
    IF members = {} THEN 0
    ELSE LET d == CHOOSE x \in members : TRUE
         IN (IF subject \in DOMAIN d.stats THEN d.stats[subject].number
             ELSE 0) + SumStored(members \ {d}, subject)

RECURSIVE combine_subjects(_, _, _)
\* The loop "for subject in all_subjects" of combine_districts (lines
\* 1671-1681): a ComputedCharacteristic for every subject; the denominator
\* row of the new target exists because the subjects without a denominator
\* come first.
combine_subjects(stats, order, members) ==
    IF order = <<>> THEN stats
    ELSE LET subject == Head(order)
             number == SumStored(members, subject)
             den == percentage_denominator(subject)
             percentage == IF den # None /\ den \in DOMAIN stats
                           THEN IF stats[den].number > 0
                                THEN Quotient(number, stats[den].number)
                                ELSE 0
                           ELSE 0
         IN combine_subjects(
                [s \in DOMAIN stats \cup {subject} |->
                    IF s = subject
                    THEN [number |-> number, percentage |-> percentage]
                    ELSE stats[s]],
                Tail(order), members)

RECURSIVE combine_components(_, _, _, _)
\* The loop "for component in components" (lines 1690-1697): every
\* component other than the target gets a new, empty row at version + 1.
combine_components(db, todo, target, version) ==
    IF todo = <<>> THEN db
    ELSE LET component == Head(todo)
         IN IF component.district_id = target.district_id
            THEN combine_components(db, Tail(todo), target, version)
            ELSE combine_components(
                     save_new(db, [component EXCEPT !.geom = {},
                                                    !.version = version + 1,
                                                    !.stats = NoStats]),
                     Tail(todo), target, version)

\* A combination that leaves the geometry of the target as it was.
combine_write_without_geometry(db, target, components, version) ==
    [combine_components(
         save_new(db, [target EXCEPT
                         !.version = version + 1,
                         !.stats = combine_subjects(NoStats, SubjectOrder(Subjects), components \cup {target})]),
         Sorted(components), target, version)
     EXCEPT !.plan.version = @ + 1]

\* Lines 1663-1701 of combine_districts: the new target row with the summed
\* characteristics and the collapsed geometry, the emptied components, and
\* the plan's version advanced.
combine_write(db, target, components, version) ==
    [combine_components(
         save_new(db, [target EXCEPT
                         !.version = version + 1,
                         !.geom = UNION {d.geom : d \in components \cup {target}},
                         !.stats = combine_subjects(NoStats, SubjectOrder(Subjects), components \cup {target})]),
         Sorted(components), target, version)
     EXCEPT !.plan.version = @ + 1]

\* A combine_districts whose purge stays when the checks raise.
combine_districts_purge_kept(db, target, components, version) ==
    LET purged == IF version # db.plan.version
                  THEN purge(db.rows, None, version)
                  ELSE db.rows
        district_keys == {d.id : d \in components \cup {target}}
        version_keys == {d.id : d \in get_districts_at_version(purged, version)}
    IN  IF ~ (district_keys \subseteq version_keys) \/ target.is_locked
        THEN [db |-> [db EXCEPT !.rows = purged], raised |-> TRUE, refused |-> FALSE, ret |-> FALSE]
        ELSE [db |-> combine_write([db EXCEPT !.rows = purged], target, components, version),
              raised |-> FALSE, refused |-> FALSE, ret |-> TRUE]

\* Plan.combine_districts (lines 1632-1705) under
\* @transaction.commit_manually: an exception raised before the try block
\* leaves the method with the purge pending, which is rolled back.
combine_districts(db, target, components, version) ==
    LET purged == IF version # db.plan.version
                  THEN purge(db.rows, None, version)
                  ELSE db.rows
        district_keys == {d.id : d \in components \cup {target}}
        version_keys == {d.id : d \in get_districts_at_version(purged, version)}
    IN  IF ~ (district_keys \subseteq version_keys) \/ target.is_locked
        THEN [db |-> db, raised |-> TRUE, refused |-> FALSE, ret |-> FALSE]
        ELSE [db |-> combine_write([db EXCEPT !.rows = purged], target, components, version),
              raised |-> FALSE, refused |-> FALSE, ret |-> TRUE]

---------------------------------------------------------------------------
(* Plan.fix_unassigned *)

\* settings.FIX_UNASSIGNED_MIN_PERCENT of the deployment
FIX_UNASSIGNED_MIN_PERCENT == 50

\* settings.FIX_UNASSIGNED_COMPARATOR_SUBJECT of the deployment: the subject
\* that counts 1 for every base geounit, so that districts can be equal.
FIX_UNASSIGNED_COMPARATOR_SUBJECT == CHOOSE s \in Subjects : percentage_denominator(s) # None

\* LegislativeBody.max_districts
max_districts == MaxDistrictId

RECURSIVE Grow(_, _)
\* The base geounits of g connected to `seed` through shared borders.
Grow(seed, g) ==
    LET more == seed \cup {b \in g : \E a \in seed : Adjacent(a, b)}
    IN IF more = seed THEN seed ELSE Grow(more, g)

\* The polygons of a MultiPolygon: its connected pieces.
Polygons(g) == {Grow({u}, g) : u \in g}

\* Polygon(poly.exterior_ring): the polygon with its holes filled.  Base
\* geounit 1 is the only enclave of the catalog, inside base geounit 2.
Exterior(poly) == IF 2 \in poly THEN poly \cup {1} ELSE poly

\* geounit.geom.touches(exterior): a shared border and no shared area.
Touches(u, exterior) ==
    u \notin exterior /\ \E p \in exterior : Adjacent(u, p)

\* Plan.get_unassigned_geounits: the base geounits of the latest
\* Unassigned row up to `version`; "if version:" takes version 0 for an
\* omitted version and reads the latest row of all.
get_unassigned_geounits(rs, version) ==
    LET found == {r \in rs : /\ r.district_id = 0
                             /\ (version # 0 => r.version <= version)}
        unassigned == CHOOSE r \in found :
                          \A e \in found : \/ e.version < r.version
                                           \/ (e.version = r.version /\ e.id >= r.id)
    IN unassigned.geom

RECURSIVE Digits(_)
\* The decimal digits of a district_id, as "%d" writes them.
Digits(n) == IF n < 10 THEN <<n>> ELSE Digits(n \div 10) \o <<n % 10>>

\* District.name of a numbered district: legislative_body.member %
\* district_id (lines 923, 1096-1100).  The prefix is the same for every
\* district of the plan, so the digits stand for the name.
name(district) == Digits(district.district_id)

RECURSIVE StringBefore(_, _)
\* s sorts strictly before t as a string.
StringBefore(s, t) ==
    IF t = <<>> THEN FALSE
    ELSE IF s = <<>> THEN TRUE
    ELSE IF Head(s) # Head(t) THEN Head(s) < Head(t)
    ELSE StringBefore(Tail(s), Tail(t))

\* The order in which a District queryset yields its rows: Meta.ordering
\* is ['name'] (line 1735); rows of one name come in table order.
QueryOrder(d, e) ==
    \/ StringBefore(name(d), name(e))
    \/ (name(d) = name(e) /\ d.id <= e.id)

\* Lines 1528-1534: the unassigned clusters that lie within the exterior
\* ring of a polygon of a district go to that district, with value 0.  The
\* districts are visited in queryset order; a later district overwrites.
HoleFill(unassigned_geom, districts) ==
    LET holders(u) ==
            {d \in districts :
                \E up \in Polygons(unassigned_geom), p \in Polygons(d.geom) :
                    u \in up /\ up \subseteq Exterior(p)}
    IN [u \in {x \in unassigned_geom : holders(x) # {}} |->
           [district_id |-> (CHOOSE d \in holders(u) :
                                \A e \in holders(u) : QueryOrder(e, d)).district_id,
            dist_val |-> 0]]

\* calculator.compute(district=district) of the Sum calculator over the
\* comparator subject: the stored number of the district.
dist_val(district) ==
    IF FIX_UNASSIGNED_COMPARATOR_SUBJECT \in DOMAIN district.stats
    THEN district.stats[FIX_UNASSIGNED_COMPARATOR_SUBJECT].number
    ELSE 0

\* Lines 1559-1591: every unassigned geounit on the edge that touches the
\* exterior of an unlocked district goes to the touching district with the
\* smallest comparator value, the first in queryset order among equals
\* ("dist_val < to_add[geounit.id][1]" keeps the earlier district).
AdjacentFill(unassigned, unassigned_geom, districts) ==
    LET touching(u) ==
            {d \in districts :
                \E p \in Polygons(d.geom) : Touches(u, Exterior(p))}
    IN [u \in {x \in unassigned : /\ Intersects({x}, unassigned_geom)
                                  /\ touching(x) # {}} |->
           LET d == CHOOSE x \in touching(u) :
                        \A e \in touching(u) :
                            \/ dist_val(x) < dist_val(e)
                            \/ (dist_val(x) = dist_val(e) /\ QueryOrder(x, e))
           IN [district_id |-> d.district_id, dist_val |-> dist_val(d)]]

RECURSIVE fix_adds(_, _, _, _)

\* "version = self.version" after each add_geounits of fix_unassigned.
fix_adds_next(db, todo, to_add) == fix_adds(db, todo, to_add, db.plan.version)

\* Lines 1607-1609: one add_geounits per district of district_units, each
\* on top of the version the previous one produced.
fix_adds(db, todo, to_add, version) ==
    IF todo = {} THEN db
    ELSE LET did == CHOOSE x \in todo : \A y \in todo : x <= y
             units == {<<base_geolevel, u>> : u \in {x \in DOMAIN to_add : to_add[x].district_id = did}}
         IN fix_adds_next(add_geounits(db, did, units, base_geolevel, version, TRUE, "ok").db, todo \ {did}, to_add)

\* The interim Unassigned rows are deleted, the other interim rows stay at
\* their versions.
fix_versions_not_moved(db, num_adds) ==
    LET interim == (db.plan.version - num_adds + 1) .. (db.plan.version - 1)
    IN IF num_adds > 1
       THEN [db EXCEPT !.rows =
               {x \in @ : ~ (x.district_id = 0 /\ x.version \in interim)}]
       ELSE db

\* Lines 1612-1620: with more than one add, the interim Unassigned rows
\* are deleted and the other interim rows are moved to the final version.
fix_versions(db, num_adds) ==
    LET interim == (db.plan.version - num_adds + 1) .. (db.plan.version - 1)
    IN IF num_adds > 1
       THEN [db EXCEPT !.rows =
               {IF r.version \in interim
                THEN [r EXCEPT !.version = db.plan.version] ELSE r :
                r \in {x \in @ : ~ (x.district_id = 0 /\ x.version \in interim)}}]
       ELSE db

\* Lines 1593-1630 of fix_unassigned: the adds and the single-undo fix-up,
\* or the refusal when nothing can be fixed.
fix_apply(db, version, to_add) ==
    LET dids == {to_add[u].district_id : u \in DOMAIN to_add}
    IN IF DOMAIN to_add # {}
       THEN [db |-> fix_versions(fix_adds(db, dids, to_add, version), Cardinality(dids)),
             raised |-> FALSE, refused |-> FALSE, ret |-> TRUE]
       ELSE [db |-> db, raised |-> FALSE, refused |-> TRUE, ret |-> FALSE]

\* The adjacency step taken whatever percentage is assigned.
fix_adjacent_any_percent(db, version, unassigned_geom, districts, not_all_districts_assigned, holes) ==
    LET unassigned == get_unassigned_geounits(db.rows, version)
    IN  IF not_all_districts_assigned
        THEN IF DOMAIN holes = {}
             THEN [db |-> db, raised |-> FALSE, refused |-> TRUE, ret |-> FALSE]
             ELSE fix_apply(db, version, holes)
        ELSE fix_apply(db, version, holes @@ AdjacentFill(unassigned \ DOMAIN holes, unassigned_geom, districts))

\* Lines 1536-1591 of fix_unassigned: holes alone while districts are
\* missing or too few geounits are assigned, holes and edges otherwise.
fix_adjacent(db, version, unassigned_geom, districts, not_all_districts_assigned, holes) ==
    LET unassigned == get_unassigned_geounits(db.rows, version)
        below_min_pct ==
            (NumBase - Cardinality(unassigned)) * 100 < FIX_UNASSIGNED_MIN_PERCENT * NumBase
    IN  IF not_all_districts_assigned
        THEN IF DOMAIN holes = {}
             THEN [db |-> db, raised |-> FALSE, refused |-> TRUE, ret |-> FALSE]
             ELSE fix_apply(db, version, holes)
        ELSE IF below_min_pct
        THEN IF DOMAIN holes = {}
             THEN [db |-> db, raised |-> FALSE, refused |-> TRUE, ret |-> FALSE]
             ELSE fix_apply(db, version, holes)
        ELSE fix_apply(db, version, holes @@ AdjacentFill(unassigned \ DOMAIN holes, unassigned_geom, districts))

\* Lines 1516-1540 of fix_unassigned once the Unassigned row is found.
fix_found(db, version, unassigned_geom, at_version) ==
    LET districts == {d \in at_version : /\ d.district_id # 0
                                         /\ ~ d.is_locked
                                         /\ d.has_geom /\ d.geom # {}}
    IN  IF unassigned_geom = {}
        THEN [db |-> db, raised |-> FALSE, refused |-> TRUE, ret |-> FALSE]
        ELSE fix_adjacent(db, version, unassigned_geom, districts, Cardinality(at_version) - 1 < max_districts, HoleFill(unassigned_geom, districts))

\* Plan.fix_unassigned (lines 1491-1630).  district_set.get(district_id=0,
\* version=version) raises unless exactly one Unassigned row carries the
\* version itself.
fix_unassigned(db, version) ==
    LET exact == {r \in db.rows : r.district_id = 0 /\ r.version = version}
    IN  IF Cardinality(exact) # 1
        THEN [db |-> db, raised |-> TRUE, refused |-> FALSE, ret |-> FALSE]
        ELSE fix_found(db, version, (CHOOSE r \in exact : TRUE).geom, get_districts_at_version(db.rows, version))

---------------------------------------------------------------------------
(* Plan.paste_districts *)

\* greatest number of districts a caller pastes in one call
MaxPaste == 2

\* Plan.get_biggest_geolevel: the geolevel with the smallest min_zoom.
get_biggest_geolevel == GeoLevels[1]

\* The pre_save hook set_district_id for a row saved without district_id:
\* the first number from 1 on that no district with a geometry uses at
\* `version`; None when the plan is at capacity (ValidationError, so the
\* row is not saved).  Below capacity one of the max_districts + 1 numbers
\* tried is free.
set_district_id(rs, version) ==
    LET districts == get_districts_at_version(rs, version)
        in_use == {d \in districts : d.has_geom}
        ids_in_use == {d.district_id : d \in in_use}
    IN  IF Cardinality(in_use) >= max_districts + 1 THEN None
        ELSE CHOOSE i \in 1 .. (max_districts + 1) :
                 i \notin ids_in_use /\ \A j \in 1 .. (i - 1) : j \in ids_in_use

\* Lines 1084-1088 of paste_district: the district_id of the first
\* numbered district of `others` whose geometry is empty, None without one.
paste_slot(others) ==
    LET free == {i \in 1 .. Len(others) :
                    others[i].district_id # 0 /\ others[i].geom = {}}
    IN  IF free = {} THEN None
        ELSE others[CHOOSE i \in free : \A j \in free : i <= j].district_id

\* Lines 1131-1132 and 1153-1156: the geounits that make up the
\* intersection, selected from the geounits of the biggest geolevel whose
\* bounding box overlaps it.
paste_geounits(intersection) ==
    get_mixed_geounits({u \in UnitsAt(get_biggest_geolevel) : Intersects(Extent(u), intersection)}, get_biggest_geolevel, intersection, TRUE)

\* Lines 1122-1133: a locked district keeps its area; the pasted district
\* loses the overlap, and is deleted when nothing of it is left.
paste_locked(acc, existing, geounits) ==
    IF acc.pasted.geom \ existing.geom = {}
    THEN [acc EXCEPT !.db.rows = {r \in @ : r.id # acc.pasted.id},
                     !.consumed = TRUE]
    ELSE [acc EXCEPT
            !.db.rows = {IF r.id = acc.pasted.id
                         THEN [r EXCEPT !.geom = @ \ existing.geom,
                                        !.stats = delta_stats(@, geounits, FALSE)]
                         ELSE r : r \in @},
            !.pasted = [@ EXCEPT !.geom = @ \ existing.geom,
                                 !.stats = delta_stats(@, geounits, FALSE)],
            !.edited = Append(@, existing)]

\* Lines 1135-1161: an unlocked district loses the overlap, in a copy at
\* the new version on the first paste of a call and in the row itself on
\* the later ones.
paste_unlocked(acc, existing, geounits, first_run, new_version) ==
    LET new_district ==
            [existing EXCEPT !.id = IF first_run THEN acc.db.nextId ELSE @,
                             !.geom = @ \ acc.pasted.geom,
                             !.version = new_version,
                             !.stats = delta_stats(@, geounits, FALSE)]
    IN  [acc EXCEPT
            !.db.rows = IF first_run THEN @ \cup {new_district}
                        ELSE {r \in @ : r.id # existing.id} \cup {new_district},
            !.db.nextId = IF first_run THEN @ + 1 ELSE @,
            !.edited = Append(@, new_district)]

RECURSIVE paste_loop(_, _, _, _)
\* The loop "for existing in others" of paste_district.  acc is
\* [db, pasted, edited, consumed].
paste_loop(acc, todo, first_run, new_version) ==
    IF todo = <<>> \/ acc.consumed THEN acc
    ELSE LET existing == Head(todo)
         IN IF existing.geom \cap acc.pasted.geom = {}
            THEN paste_loop([acc EXCEPT !.edited = Append(@, existing)],
                            Tail(todo), first_run, new_version)
            ELSE IF existing.is_locked
            THEN paste_loop(paste_locked(acc, existing, paste_geounits(existing.geom \cap acc.pasted.geom)),
                            Tail(todo), first_run, new_version)
            ELSE paste_loop(paste_unlocked(acc, existing, paste_geounits(existing.geom \cap acc.pasted.geom), first_run, new_version),
                            Tail(todo), first_run, new_version)

\* Lines 1096-1162 of paste_district once the district_id of the pasted
\* row is known.
paste_saved(db, district, district_id, others, first_run, new_version) ==
    LET pasted == [id |-> db.nextId, district_id |-> district_id,
                   version |-> new_version, geom |-> district.geom,
                   has_geom |-> TRUE, is_locked |-> FALSE,
                   stats |-> district.stats]
    IN  IF district_id = None
        THEN [db |-> db, pasted |-> pasted, edited |-> others,
              consumed |-> FALSE, invalid |-> TRUE]
        ELSE [invalid |-> FALSE] @@ paste_loop([db |-> save_new(db, pasted), pasted |-> pasted, edited |-> <<>>, consumed |-> FALSE], others, first_run, new_version)

\* Plan.paste_district (lines 1059-1162).  The result is [db, pasted,
\* edited, consumed, invalid]: `consumed` when the method returned None,
\* `invalid` when saving the pasted row raised.
paste_district(db, district, version, others, first_run) ==
    IF paste_slot(others) # None
    THEN paste_saved(db, district, paste_slot(others), others, first_run, version + 1)
    ELSE paste_saved(db, district, set_district_id(db.rows, version + 1), others, first_run, version + 1)

RECURSIVE paste_each(_, _, _, _, _)

\* Line 1047: "new_district_id, others = self.paste_district(...)" raises
\* TypeError on the None of a consumed district; the rows written so far
\* stay, since paste_districts runs outside any transaction.
paste_step(acc, r, rest, version) ==
    IF r.consumed \/ r.invalid
    THEN [acc EXCEPT !.db = r.db, !.raised = TRUE]
    ELSE paste_each([acc EXCEPT !.db = r.db,
                                !.pasted_list = Append(@, r.pasted.id)],
                    rest, version, r.edited, FALSE)

\* The loop "for district in districts" of paste_districts (lines
\* 1046-1049).  acc is [db, raised, pasted_list].
paste_each(acc, todo, version, others, first_run) ==
    IF todo = <<>> THEN acc
    ELSE paste_step(acc, paste_district(acc.db, Head(todo), version, others, first_run), Tail(todo), version)

\* Lines 1050-1053 of paste_districts.
paste_finish(r, version) ==
    IF r.raised
    THEN [db |-> r.db, raised |-> TRUE, refused |-> FALSE, ret |-> <<>>]
    ELSE [db |-> IF Len(r.pasted_list) > 0
                 THEN [r.db EXCEPT !.plan.version = version + 1]
                 ELSE r.db,
          raised |-> FALSE, refused |-> FALSE, ret |-> r.pasted_list]

\* Plan.paste_districts (lines 1014-1053).
paste_districts(db, districts, version) ==
    LET current_districts == get_districts_at_version(db.rows, version)
        allowed_districts ==
            max_districts + 1
              - Cardinality({d \in current_districts :
                                d.district_id = 0 \/ d.geom # {}})
        purged == IF version < db.plan.version
                  THEN [db EXCEPT !.rows = purge(@, None, version)]
                  ELSE db
    IN  IF allowed_districts <= 0
        THEN [db |-> db, raised |-> TRUE, refused |-> FALSE, ret |-> <<>>]
        ELSE paste_finish(paste_each([db |-> purged, raised |-> FALSE, pasted_list |-> <<>>], districts, version, Sorted(current_districts), TRUE), version)

---------------------------------------------------------------------------
(* The state machine *)

\* The database record the operations work on.
DB == [rows |-> rows, nextId |-> nextId, plan |-> plan]

\* The score tables without an entry.
NoScores == <<>>

\* ComputedDistrictScore.district is a ForeignKey: the scores of a district
\* row are deleted with the row.
on_delete_cascade(cache, rs) ==
    [k \in {x \in DOMAIN cache : \E r \in rs : r.id = x} |-> cache[k]]

\* What an operation of the plan does to the score tables: nothing, but
\* for the cascade of the district rows it deletes.
ScoresKept ==
    /\ planscores' = planscores
    /\ districtscores' = on_delete_cascade(districtscores, rows')

\* number of requests that mutate the plan at a time
NumRequests == 2

Requests == 1 .. NumRequests

\* A request that has not loaded the plan.
Idle == [pc |-> "idle", self |-> None, seen |-> None, call |-> None]

\* A call made while no other request is at work on the plan.
Untouched ==
    /\ ScoresKept
    /\ requests' = requests

\* Plan.create_default and create_unassigned_district: a new plan at
\* version 0 whose Unassigned district holds every geounit.
Init ==
    /\ rows = {[id |-> 1, district_id |-> 0, version |-> 0,
                geom |-> BaseUnits, has_geom |-> TRUE, is_locked |-> FALSE,
                stats |-> delta_stats(NoStats, UnitsAt(GeoLevels[1]), TRUE)]}
    /\ nextId = 2
    /\ plan = [version |-> 0, min_version |-> 0, is_valid |-> FALSE]
    /\ last = [op |-> "create", target |-> 0, version |-> 0, area |-> {},
               outcome |-> "done"]
    /\ planscores = NoScores
    /\ districtscores = NoScores
    /\ requests = [p \in Requests |-> Idle]

\* The key the table hands out next.  Keys count only through identity and
\* order among the stored rows, so after a call the sequence stands at the
\* first key above those stored: equal tables are one state.
NextKey(rs) ==
    IF rs = {} THEN 1
    ELSE 1 + (CHOOSE k \in {r.id : r \in rs} : \A r \in rs : r.id <= k)

\* The record of a call: the operation, its target district_id, its base
\* version, the area it named (kept for a completed call only) and how it
\* ended: "done", "refused" (an early return) or "raised".
Called(op, target, version, area, r) ==
    [op |-> op, target |-> target, version |-> version,
     area |-> IF r.raised \/ r.refused THEN {} ELSE area,
     outcome |-> IF r.raised THEN "raised"
                 ELSE IF r.refused THEN "refused" ELSE "done"]

\* The selections a caller passes: the non-empty sets of up to
\* MaxSelection geounits of one geolevel.
Selections(level) ==
    {units \in SUBSET UnitsAt(level) :
        units # {} /\ Cardinality(units) <= MaxSelection}

\* A call of Plan.add_geounits in which the geometry kernel behaves as
\* `geos` says: "ok", or the difference (line 896) or the union (line 957)
\* throws GEOSException.
AddGeounitsCall(geos, maxVersion) ==
    \E districtid \in 0 .. MaxDistrictId,
       level \in {GeoLevels[i] : i \in 1 .. Len(GeoLevels)},
       version \in plan.min_version .. plan.version :
      \E geounit_ids \in Selections(level) :
        LET r == add_geounits(DB, districtid, geounit_ids, level, version,
                              FALSE, geos)
        IN /\ \/ plan.version < maxVersion
              \/ target_is_locked(get_districts_at_version(rows, version), districtid)
           /\ rows' = r.db.rows
           /\ Untouched
           /\ nextId' = NextKey(r.db.rows)
           /\ plan' = r.db.plan
           /\ last' = Called("add_geounits", districtid, version,
                             Collect(geounit_ids), r)

\* A call of Plan.add_geounits.
AddGeounits == AddGeounitsCall("ok", MaxVersion)

\* A call of Plan.add_geounits with an empty list of geounits.
AddGeounitsEmpty ==
    \E districtid \in 0 .. MaxDistrictId,
       level \in {GeoLevels[i] : i \in 1 .. Len(GeoLevels)},
       version \in plan.min_version .. plan.version :
        LET r == add_geounits(DB, districtid, {}, level, version, FALSE, "ok")
        IN /\ rows' = r.db.rows
           /\ Untouched
           /\ nextId' = NextKey(r.db.rows)
           /\ plan' = r.db.plan
           /\ last' = [op |-> "add_geounits", target |-> districtid,
                       version |-> version, area |-> {},
                       outcome |-> IF r.raised THEN "raised"
                                   ELSE IF r.refused THEN "refused"
                                   ELSE "done",
                       geounit_ids |-> {}]

\* A call of Plan.add_geounits during which the kernel throws.
AddGeounitsThrows ==
    \E geos \in {"difference", "union"} :
        AddGeounitsCall(geos, MaxVersion)

\* The lock flag of a district of the current plan version is switched
\* (District.is_locked is saved in place, without a new version).
SetLocked ==
    \E d \in get_districts_at_version(rows, plan.version) :
        /\ d.district_id # 0
        /\ rows' = (rows \ {d}) \cup {[d EXCEPT !.is_locked = ~ @]}
        /\ Untouched
        /\ last' = [op |-> "set_locked", target |-> d.district_id,
                    version |-> d.version, area |-> {}, outcome |-> "done"]
        /\ UNCHANGED <<nextId, plan>>

\* greatest primary key the model lets the table hand out
MaxRowId == 12
\* plan.version at which the model of pastes alone stops
MaxPasteVersion == 3
\* greatest primary key the table has handed out when a paste is issued
MaxPasteRowId == 4
\* plan.version at which the model stops issuing fix_unassigned
MaxFixVersion == 3

\* A call of Plan.combine_districts: the target is any stored row, the
\* components are districts of the version the caller names.  The record
\* of the call keeps the keys of the target row and of the component rows.
CombineDistrictsCall(maxVersion) ==
    \E target \in rows, version \in plan.min_version .. plan.version :
      \E components \in {c \in SUBSET get_districts_at_version(rows, version) : Cardinality(c) <= MaxComponents} :
        LET r == combine_districts(DB, target, components, version)
        IN /\ plan.version < maxVersion
           /\ nextId <= MaxRowId
           /\ rows' = r.db.rows
           /\ Untouched
           /\ nextId' = NextKey(r.db.rows)
           /\ plan' = r.db.plan
           /\ last' = Called("combine_districts", target.district_id,
                             version, {}, r)
                         @@ [row |-> target.id,
                             components |-> {c.id : c \in components}]

CombineDistricts == CombineDistrictsCall(MaxVersion)

\* A call of Plan.combine_districts with any stored rows as target and
\* components, also rows that are not districts of the version named; a
\* call that fails is issued at every plan.version.
CombineDistrictsOfRows ==
    \E target \in rows, version \in plan.min_version .. plan.version :
      \E components \in {c \in SUBSET rows : Cardinality(c) <= MaxComponents} :
        LET r == combine_districts(DB, target, components, version)
        IN /\ plan.version < MaxVersion \/ r.raised
           /\ nextId <= MaxRowId
           /\ rows' = r.db.rows
           /\ Untouched
           /\ nextId' = NextKey(r.db.rows)
           /\ plan' = r.db.plan
           /\ last' = Called("combine_districts", target.district_id,
                             version, {}, r)
                         @@ [row |-> target.id,
                             components |-> {c.id : c \in components}]

\* A call of Plan.fix_unassigned.
FixUnassignedCall(maxVersion) ==
    \E version \in plan.min_version .. plan.version :
        LET r == fix_unassigned(DB, version)
        IN /\ plan.version < maxVersion
           /\ nextId <= MaxRowId
           /\ rows' = r.db.rows
           /\ Untouched
           /\ nextId' = NextKey(r.db.rows)
           /\ plan' = r.db.plan
           /\ last' = Called("fix_unassigned", 0, version, {}, r)

FixUnassigned == FixUnassignedCall(MaxFixVersion)

\* A district of another plan, as a caller hands it to paste_districts:
\* its geometry and its ComputedCharacteristic rows.
SourceDistrict(geom) ==
    [geom |-> geom,
     stats |-> delta_stats(NoStats, {<<base_geolevel, b>> : b \in geom}, TRUE)]

\* The districts offered for pasting: one per geounit of the biggest
\* geolevel, and a district that its own plan has emptied (the row of a
\* combined component, line 1695).
SourceDistricts ==
    {SourceDistrict(Extent(u)) : u \in UnitsAt(get_biggest_geolevel)} \cup {SourceDistrict({})}

\* A call of Plan.paste_districts.  The record of the call keeps the
\* geometries of the districts handed in and the number of ids returned.
PasteDistrictsCall(maxVersion, maxRowId) ==
    \E version \in plan.min_version .. plan.version, n \in 1 .. MaxPaste :
      \E districts \in [1 .. n -> SourceDistricts] :
        LET r == paste_districts(DB, districts, version)
        IN /\ plan.version < maxVersion
           /\ nextId <= maxRowId
           /\ rows' = r.db.rows
           /\ Untouched
           /\ nextId' = NextKey(r.db.rows)
           /\ plan' = r.db.plan
           /\ last' = Called("paste_districts", 0, version,
                             UNION {districts[i].geom : i \in 1 .. n}, r)
                         @@ [districts |-> [i \in 1 .. n |-> districts[i].geom],
                             pasted |-> Len(r.ret)]

\* plan.version at which the model of the history calls stops editing
MaxHistoryVersion == 3
\* greatest number of undo steps a caller names
MaxSteps == 3

\* A call of Plan.add_geounits that keeps old versions, with a selection
\* at the biggest geolevel.
AddGeounitsKeep ==
    \E districtid \in 0 .. MaxDistrictId,
       level \in {get_biggest_geolevel},
       version \in plan.min_version .. plan.version :
      \E geounit_ids \in Selections(level) :
        LET r == add_geounits(DB, districtid, geounit_ids, level, version,
                              TRUE, "ok")
        IN /\ plan.version < MaxHistoryVersion
           /\ rows' = r.db.rows
           /\ Untouched
           /\ nextId' = NextKey(r.db.rows)
           /\ plan' = r.db.plan
           /\ last' = Called("add_geounits", districtid, version,
                             Collect(geounit_ids), r)

\* A call of Plan.purge.  The record of the call keeps `before` as its
\* version and `after` as its target, None for a keyword left out, and
\* counts the rows the call deleted.
Purge ==
    \E before \in {None} \cup (0 .. plan.version),
       after \in {None} \cup (0 .. plan.version) :
        /\ rows' = purge(rows, before, after)
        /\ Untouched
        /\ nextId' = NextKey(purge(rows, before, after))
        /\ last' = [op |-> "purge", target |-> after, version |-> before,
                    area |-> {}, outcome |-> "done",
                    deleted |-> Cardinality(rows \ purge(rows, before, after))]
        /\ UNCHANGED plan

\* A call of Plan.purge_beyond_nth_step.  The record of the call keeps
\* `steps` as its target and the min_version it found as its version.
PurgeBeyondNthStep ==
    \E steps \in 0 .. MaxSteps :
        LET r == purge_beyond_nth_step(DB, steps)
        IN /\ rows' = r.rows
           /\ Untouched
           /\ nextId' = NextKey(r.rows)
           /\ plan' = r.plan
           /\ last' = [op |-> "purge_beyond_nth_step", target |-> steps,
                       version |-> plan.min_version, area |-> {},
                       outcome |-> "done"]

\* Edits that keep their history, and the calls that purge it.
NextHistory == AddGeounitsKeep \/ Purge \/ PurgeBeyondNthStep

SpecHistory == Init /\ [][NextHistory]_vars

\* Assignments and locks only.
NextAssign == AddGeounits \/ SetLocked

SpecAssign == Init /\ [][NextAssign]_vars

\* Assignments, among them calls with an empty list, and locks.
NextEmpty == AddGeounits \/ AddGeounitsEmpty \/ SetLocked

SpecEmpty == Init /\ [][NextEmpty]_vars

\* Assignments with a geometry kernel that may throw.
NextGeos ==
    \/ AddGeounitsCall("ok", MaxVersion)
    \/ AddGeounitsThrows
    \/ SetLocked

SpecGeos == Init /\ [][NextGeos]_vars

\* A call of Plan.paste_districts on a plan that other calls edit too.
PasteDistricts == PasteDistrictsCall(MaxVersion, MaxPasteRowId)

\* Pastes and locks only.
NextPaste == PasteDistrictsCall(MaxPasteVersion, MaxPasteRowId) \/ SetLocked

SpecPaste == Init /\ [][NextPaste]_vars

\* Assignments, combinations, fixes and locks: every mutation but paste.
NextEdit == AddGeounits \/ CombineDistricts \/ FixUnassigned \/ SetLocked

SpecEdit == Init /\ [][NextEdit]_vars

\* Assignments, locks and combinations of any rows.
NextCombine == AddGeounits \/ CombineDistrictsOfRows \/ SetLocked

SpecCombine == Init /\ [][NextCombine]_vars

\* plan.version at which the model of the district capacity stops
MaxCapacityVersion == 2

\* A call of Plan.add_geounits whose caller may name any district_id up to
\* one more than the legislative body allows.
AddGeounitsAnyId ==
    \E districtid \in 0 .. (max_districts + 1),
       level \in {GeoLevels[i] : i \in 1 .. Len(GeoLevels)},
       version \in plan.min_version .. plan.version :
      \E geounit_ids \in Selections(level) :
        LET r == add_geounits(DB, districtid, geounit_ids, level, version,
                              FALSE, "ok")
        IN /\ plan.version < MaxCapacityVersion
           /\ rows' = r.db.rows
           /\ Untouched
           /\ nextId' = NextKey(r.db.rows)
           /\ plan' = r.db.plan
           /\ last' = Called("add_geounits", districtid, version,
                             Collect(geounit_ids), r)

\* Assignments to any district_id, and pastes.
NextCapacity ==
    \/ AddGeounitsAnyId
    \/ PasteDistrictsCall(MaxCapacityVersion, MaxPasteRowId)

SpecCapacity == Init /\ [][NextCapacity]_vars

\* a district_id of two digits
TwoDigitDistrictId == 10

\* plan.version at which the model of the two-digit district stops
MaxNamesVersion == 2

\* A call of Plan.add_geounits on a plan whose districts are numbered up to
\* two digits: the caller names Unassigned, a one-digit or a two-digit
\* district.
AddGeounitsTwoDigit ==
    \E districtid \in {0, max_districts, TwoDigitDistrictId},
       version \in plan.min_version .. plan.version :
      \E geounit_ids \in Selections(base_geolevel) :
        LET r == add_geounits(DB, districtid, geounit_ids, base_geolevel,
                              version, FALSE, "ok")
        IN /\ plan.version < MaxNamesVersion
           /\ rows' = r.db.rows
           /\ Untouched
           /\ nextId' = NextKey(r.db.rows)
           /\ plan' = r.db.plan
           /\ last' = Called("add_geounits", districtid, version,
                             Collect(geounit_ids), r)

\* Assignments to one-digit and two-digit districts, and fixes.
NextNames ==
    \/ AddGeounitsTwoDigit
    \/ FixUnassigned

SpecNames == Init /\ [][NextNames]_vars

\* The arguments of a call of Geounit.get_mixed_geounits, before the call:
\* a selection at a geolevel, a boundary (any union of base geounits, or
\* none) and the side to search.
InitMixed ==
    /\ rows = {[id |-> 1, district_id |-> 0, version |-> 0,
                geom |-> BaseUnits, has_geom |-> TRUE, is_locked |-> FALSE,
                stats |-> delta_stats(NoStats, UnitsAt(GeoLevels[1]), TRUE)]}
    /\ nextId = 2
    /\ plan = [version |-> 0, min_version |-> 0, is_valid |-> FALSE]
    /\ \E geolevel \in {GeoLevels[i] : i \in 1 .. Len(GeoLevels)},
          boundary \in SUBSET BaseUnits, inside \in BOOLEAN :
         \E geounit_ids \in Selections(geolevel) :
           last = [op |-> "selection", target |-> 0, version |-> 0,
                   area |-> Collect(geounit_ids), outcome |-> "done",
                   geounit_ids |-> geounit_ids, geolevel |-> geolevel,
                   boundary |-> boundary, inside |-> inside, units |-> {}]
    /\ planscores = NoScores
    /\ districtscores = NoScores
    /\ requests = [p \in Requests |-> Idle]

\* The call of Geounit.get_mixed_geounits on the arguments drawn.
GetMixedGeounits ==
    /\ last.op = "selection"
    /\ last' = [last EXCEPT
                  !.op = "get_mixed_geounits",
                  !.units = get_mixed_geounits(last.geounit_ids, last.geolevel,
                                               last.boundary, last.inside)]
    /\ UNCHANGED <<rows, nextId, plan>>
    /\ Untouched

NextMixed == GetMixedGeounits

SpecMixed == InitMixed /\ [][NextMixed]_vars

\* cPickle.dumps of a score, and the empty text get_or_create stores first.
dumps(score) == <<"pickle", score>>

\* cPickle.loads raises on a text that is not a pickle.
Decodable(value) == Len(value) = 2 /\ value[1] = "pickle"

loads(value) == value[2]

\* function.score(plan, version=v) of a plan score function: what it
\* returns is a function of the districts of the plan at v; the finest one
\* stands for all.
score_plan(rs, version) ==
    {<<d.district_id, d.geom>> : d \in get_districts_at_version(rs, version)}

\* function.score(district) of a district score function.
score_district(district) == <<district.district_id, district.geom>>

\* "version or plan.version" (lines 2845, 2852, 2859): None and 0 are both
\* falsy.
version_or(version, db) ==
    IF version = None \/ version = 0 THEN db.plan.version ELSE version

\* The result of a compute: the table, whether the score function raised,
\* whether get_or_create made the entry, whether the score function was
\* called, and the score returned.
Computed(cache, raised, created, scored, score) ==
    [cache |-> cache, raised |-> raised, created |-> created,
     scored |-> scored, score |-> score]

\* get_or_create(..., defaults={'value': ''})
get_or_create(cache, key) ==
    IF key \in DOMAIN cache THEN cache ELSE cache @@ (key :> <<>>)

\* A compute that scores on every call and stores what it gets.
compute_always_scores(cache, key, created, fresh, throws, overwrite) ==
    IF throws
    THEN Computed(cache, TRUE, created, TRUE, None)
    ELSE Computed([cache EXCEPT ![key] = dumps(fresh)], FALSE, created,
                  TRUE, fresh)

\* Lines 2772-2781 and 2851-2861: a new entry is scored and saved, a
\* stored one is decoded; one that does not decode is scored again, and
\* saved again by ComputedPlanScore only (`overwrite`).  An exception of
\* the score function leaves compute, after get_or_create has saved.
compute(cache, key, created, fresh, throws, overwrite) ==
    IF created
    THEN IF throws
         THEN Computed(cache, TRUE, created, TRUE, None)
         ELSE Computed([cache EXCEPT ![key] = dumps(fresh)], FALSE, created,
                       TRUE, fresh)
    ELSE IF Decodable(cache[key])
    THEN Computed(cache, FALSE, created, FALSE, loads(cache[key]))
    ELSE IF throws
    THEN Computed(cache, TRUE, created, TRUE, None)
    ELSE Computed(IF overwrite THEN [cache EXCEPT ![key] = dumps(fresh)]
                  ELSE cache,
                  FALSE, created, TRUE, fresh)

\* ComputedPlanScore.compute(function, plan, version) (lines 2824-2861).
ComputedPlanScore_compute(cache, db, version, throws) ==
    compute(get_or_create(cache, version_or(version, db)),
            version_or(version, db),
            version_or(version, db) \notin DOMAIN cache,
            score_plan(db.rows, version_or(version, db)), throws, TRUE)

\* ComputedDistrictScore.compute(function, district) (lines 2746-2781).
ComputedDistrictScore_compute(cache, district, throws) ==
    compute(get_or_create(cache, district.id), district.id,
            district.id \notin DOMAIN cache,
            score_district(district), throws, FALSE)

\* The record of a call of compute: its arguments, the key it handed to
\* get_or_create, whether the entry was created, whether function.score
\* was called, and the score returned.
ComputeCalled(op, target, version, key, r) ==
    [op |-> op, target |-> target, version |-> version, area |-> {},
     outcome |-> IF r.raised THEN "raised" ELSE "done", key |-> key,
     created |-> r.created, scored |-> r.scored, score |-> r.score]

\* A call of ComputedPlanScore.compute for a version of the plan, or
\* without one; the score function may raise.
ComputePlanScore ==
    \E version \in {None} \cup (0 .. plan.version), throws \in BOOLEAN :
        LET r == ComputedPlanScore_compute(planscores, DB, version, throws)
        IN /\ planscores' = r.cache
           /\ last' = ComputeCalled("ComputedPlanScore.compute", 0, version,
                                    version_or(version, DB), r)
           /\ UNCHANGED <<rows, nextId, plan, districtscores, requests>>

\* A call of ComputedDistrictScore.compute for a district of the current
\* version of the plan; the record of the call keeps the key of the row as its target.
ComputeDistrictScore ==
    \E district \in get_districts_at_version(rows, plan.version),
       throws \in BOOLEAN :
        LET r == ComputedDistrictScore_compute(districtscores, district, throws)
        IN /\ districtscores' = r.cache
           /\ last' = ComputeCalled("ComputedDistrictScore.compute",
                                    district.id, district.version,
                                    district.id, r)
           /\ UNCHANGED <<rows, nextId, plan, planscores, requests>>

\* plan.version at which the model of the score tables stops
MaxScoreVersion == 2

\* plan.version at which the model of both score tables stops
MaxCacheVersion == 1

\* A call of Plan.add_geounits with a selection of the biggest geolevel.
AddGeounitsBiggest(maxVersion) ==
    \E districtid \in 0 .. MaxDistrictId,
       version \in plan.min_version .. plan.version :
      \E geounit_ids \in Selections(get_biggest_geolevel) :
        LET r == add_geounits(DB, districtid, geounit_ids,
                              get_biggest_geolevel, version, FALSE, "ok")
        IN /\ plan.version < maxVersion
           /\ rows' = r.db.rows
           /\ Untouched
           /\ nextId' = NextKey(r.db.rows)
           /\ plan' = r.db.plan
           /\ last' = Called("add_geounits", districtid, version,
                             Collect(geounit_ids), r)

\* Assignments, and reads of the scores of the plan and of its districts.
NextScores ==
    \/ AddGeounitsBiggest(MaxCacheVersion)
    \/ ComputePlanScore
    \/ ComputeDistrictScore

SpecScores == Init /\ [][NextScores]_vars

\* Every mutation of the plan, and reads of the scores of the plan.
NextPlanScores ==
    \/ AddGeounitsBiggest(MaxScoreVersion)
    \/ PasteDistrictsCall(MaxScoreVersion, MaxPasteRowId)
    \/ CombineDistrictsCall(MaxScoreVersion)
    \/ ComputePlanScore

SpecPlanScores == Init /\ [][NextPlanScores]_vars

\* plan.version up to which the plan is edited before two requests meet
MaxConcurrentVersion == 1

\* The mutation calls a request makes on the base version `version`:
\* add_geounits with a selection of the biggest geolevel, paste_districts
\* with one district, combine_districts with one component.
RequestCalls(db, version) ==
    {[op |-> "add_geounits", districtid |-> d, geounit_ids |-> g,
      version |-> version] :
        d \in 0 .. MaxDistrictId, g \in Selections(get_biggest_geolevel)}
    \cup {[op |-> "paste_districts", districts |-> <<src>>,
           version |-> version] : src \in SourceDistricts}
    \cup {[op |-> "combine_districts", target |-> t, components |-> {c},
           version |-> version] :
             t \in {x \in get_districts_at_version(db.rows, version) :
                       x.district_id # 0},
             c \in get_districts_at_version(db.rows, version)}

\* The call `call` made on the Plan object of db.
Mutate(db, call) ==
    IF call.op = "add_geounits"
    THEN add_geounits(db, call.districtid, call.geounit_ids,
                      get_biggest_geolevel, call.version, FALSE, "ok").db
    ELSE IF call.op = "paste_districts"
    THEN paste_districts(db, call.districts, call.version).db
    ELSE combine_districts(db, call.target, call.components, call.version).db

\* A request instantiates the Plan (its version, min_version and is_valid
\* are from now on those of the object in memory) and picks its call on
\* the current version.
Load(p) ==
    /\ requests[p].pc = "idle"
    /\ \E call \in RequestCalls(DB, plan.version) :
          requests' = [requests EXCEPT ![p] =
                          [pc |-> "loaded", self |-> plan, seen |-> DB,
                           call |-> call]]
    /\ last' = [op |-> "load", target |-> p, version |-> plan.version,
                area |-> {}, outcome |-> "done"]
    /\ UNCHANGED <<rows, nextId, plan, planscores, districtscores>>

\* The request runs its call: the queries see the table as it is now, the
\* versions are reckoned from the Plan object loaded before, and
\* self.save() writes the fields of that object.
Finish(p) ==
    /\ requests[p].pc = "loaded"
    /\ LET db == Mutate([rows |-> rows, nextId |-> nextId,
                         plan |-> requests[p].self], requests[p].call)
       IN /\ rows' = db.rows
          /\ ScoresKept
          /\ nextId' = NextKey(db.rows)
          /\ plan' = db.plan
    /\ requests' = [requests EXCEPT ![p].pc = "done"]
    /\ last' = [op |-> "finish", target |-> p,
                version |-> requests[p].call.version, area |-> {},
                outcome |-> "done"]

\* Edits one at a time, then requests that overlap.
NextConcurrent ==
    \/ /\ \A p \in Requests : requests[p].pc = "idle"
       /\ AddGeounitsBiggest(MaxConcurrentVersion)
    \/ \E p \in Requests : Load(p)
    \/ \E p \in Requests : Finish(p)

SpecConcurrent == Init /\ [][NextConcurrent]_vars

\* plan.version at which the model of assignments by county stops
MaxCloneVersion == 3

\* Assignments of whole counties over three versions, and locks.
NextClone == AddGeounitsBiggest(MaxCloneVersion) \/ SetLocked

SpecClone == Init /\ [][NextClone]_vars

\* number of subjects in the catalogs of subjects the model draws
NumSubjects == 3
\* greatest Subject.sort_key in those catalogs
MaxSortKey == 2
\* greatest Characteristic sum of the geounits passed to delta_stats
MaxAggregate == 1
\* number of delta_stats calls on one district row
MaxDeltas == 2

AllSubjects == 1 .. NumSubjects

RECURSIVE DenominatorChain(_, _, _)
\* The subjects reached from s by following percentage_denominator up to n
\* times.
DenominatorChain(den, s, n) ==
    IF n = 0 \/ den[s] = None THEN {}
    ELSE {den[s]} \cup DenominatorChain(den, den[s], n - 1)

\* The tables of subjects whose denominators form no cycle, chains
\* included.
SubjectCatalogs ==
    {den \in [AllSubjects -> AllSubjects \cup {None}] :
        \A s \in AllSubjects : s \notin DenominatorChain(den, s, NumSubjects)}

\* A table of subjects, and a new district row without statistics.
InitSubjects ==
    /\ \E den \in SubjectCatalogs, key \in [AllSubjects -> 1 .. MaxSortKey] :
          last = [op |-> "subjects", target |-> 0, version |-> 0,
                  area |-> {}, outcome |-> "done", den |-> den, key |-> key]
    /\ rows = {}
    /\ nextId = 1
    /\ plan = [version |-> 0, min_version |-> 0, is_valid |-> FALSE]
    /\ planscores = NoScores
    /\ districtscores = NoScores
    /\ requests = [p \in Requests |-> Idle]

\* The query for the subjects at the head of delta_stats (line 1834) and of
\* the merge of combine_districts (line 1670).
OrderSubjects ==
    /\ last.op = "subjects"
    /\ \E order \in order_by_percentage_denominator(AllSubjects, last.den,
                                                    last.key) :
          last' = [op |-> "order_by", target |-> 0, version |-> 0,
                   area |-> {}, outcome |-> "done", den |-> last.den,
                   key |-> last.key, order |-> order, stats |-> NoStats,
                   calls |-> 0]
    /\ UNCHANGED <<rows, nextId, plan, planscores, districtscores, requests>>

\* A call of District.delta_stats on the district row, for geounits whose
\* Characteristic sums are `aggregate` (None for a subject none of them has
\* a value for).  Geounits are taken only from a district that holds them,
\* so no number falls below 0.
DeltaStats ==
    /\ last.op \in {"order_by", "delta_stats"}
    /\ last.calls < MaxDeltas
    /\ last.outcome = "done"
    /\ \E aggregate \in [AllSubjects -> {None} \cup (1 .. MaxAggregate)],
          combine \in BOOLEAN :
          LET r == delta_loop([stats |-> last.stats, raised |-> FALSE],
                              last.order, aggregate, last.den, combine)
          IN /\ \A s \in DOMAIN r.stats : r.stats[s].number >= 0
             /\ last' = [op |-> "delta_stats", target |-> 0, version |-> 0,
                         area |-> {},
                         outcome |-> IF r.raised THEN "raised" ELSE "done",
                         den |-> last.den, key |-> last.key,
                         order |-> last.order, stats |-> r.stats,
                         calls |-> last.calls + 1, aggregate |-> aggregate,
                         combine |-> combine]
    /\ UNCHANGED <<rows, nextId, plan, planscores, districtscores, requests>>

\* The statistics of one district row under every table of subjects.
NextSubjects == OrderSubjects \/ DeltaStats

SpecSubjects == InitSubjects /\ [][NextSubjects]_vars

\* number of LegislativeLevel rows of the body
NumLevels == 3

\* The LegislativeLevel rows of the body for the default subject.
Levels == 1 .. NumLevels

\* item.geolevel: the Geolevel a LegislativeLevel row refers to; a body has
\* one row per geolevel.
glonly(item) == <<"Geolevel", item>>

\* list.reverse()
Reverse(seq) == [i \in 1 .. Len(seq) |-> seq[Len(seq) + 1 - i]]

RECURSIVE for_geobody(_, _, _)
\* The loop "for geobody in geobodies" of get_geolevels (lines 191-200)
\* over the rows still to visit; acc is [ordered, foundbody].
for_geobody(acc, todo, parent) ==
    IF todo = <<>> THEN acc
    ELSE LET geobody == Head(todo)
             ordered == acc.ordered
         IN IF Len(ordered) = 0 /\ parent[geobody] = None
            THEN for_geobody([ordered |-> Append(ordered, geobody),
                              foundbody |-> TRUE], Tail(todo), parent)
            ELSE IF Len(ordered) > 0 /\ ordered[Len(ordered)] = parent[geobody]
            THEN for_geobody([ordered |-> Append(ordered, geobody),
                              foundbody |-> TRUE], Tail(todo), parent)
            ELSE for_geobody(acc, Tail(todo), parent)

\* A pass that leaves the count alone when it finds no row.
while_body_keeps_count(ordered, allgeobodies, geobodies, parent) ==
    [ordered |-> for_geobody([ordered |-> ordered, foundbody |-> FALSE],
                             geobodies, parent).ordered,
     allgeobodies |-> allgeobodies]

\* One pass of the loop "while len(ordered) < allgeobodies" (lines 189-203).
while_body(ordered, allgeobodies, geobodies, parent) ==
    LET r == for_geobody([ordered |-> ordered, foundbody |-> FALSE],
                         geobodies, parent)
    IN [ordered |-> r.ordered,
        allgeobodies |-> IF ~ r.foundbody THEN allgeobodies - 1
                         ELSE allgeobodies]

\* A call of LegislativeBody.get_geolevels has read the rows of the body:
\* any parent relation among them, in any order the query returns them in.
InitGeolevels ==
    /\ \E parent \in [Levels -> Levels \cup {None}],
          geobodies \in Arrangements(Levels) :
          last = [op |-> "get_geolevels", target |-> 0, version |-> 0,
                  area |-> {}, outcome |-> "while", parent |-> parent,
                  geobodies |-> geobodies, ordered |-> <<>>,
                  allgeobodies |-> Len(geobodies), result |-> <<>>]
    /\ rows = {}
    /\ nextId = 1
    /\ plan = [version |-> 0, min_version |-> 0, is_valid |-> FALSE]
    /\ planscores = NoScores
    /\ districtscores = NoScores
    /\ requests = [p \in Requests |-> Idle]

\* The while loop of get_geolevels makes one more pass.
WhileBody ==
    /\ last.op = "get_geolevels" /\ last.outcome = "while"
    /\ Len(last.ordered) < last.allgeobodies
    /\ LET r == while_body(last.ordered, last.allgeobodies, last.geobodies,
                           last.parent)
       IN last' = [last EXCEPT !.ordered = r.ordered,
                               !.allgeobodies = r.allgeobodies]
    /\ UNCHANGED <<rows, nextId, plan, planscores, districtscores, requests>>

\* The while loop is left: the geolevels of the rows found are returned in
\* reverse (lines 205-211).
ReturnGeolevels ==
    /\ last.op = "get_geolevels" /\ last.outcome = "while"
    /\ ~ (Len(last.ordered) < last.allgeobodies)
    /\ last' = [last EXCEPT
                  !.outcome = "done",
                  !.result = Reverse([i \in 1 .. Len(last.ordered) |->
                                         glonly(last.ordered[i])])]
    /\ UNCHANGED <<rows, nextId, plan, planscores, districtscores, requests>>

\* LegislativeBody.get_geolevels step by step.
NextGeolevels == WhileBody \/ ReturnGeolevels

\* The call runs on: a loop that can make a pass makes it.
SpecGeolevels ==
    InitGeolevels /\ [][NextGeolevels]_vars /\ WF_vars(NextGeolevels)

\* Every operation of the plan.
Next ==
    \/ AddGeounits
    \/ PasteDistricts
    \/ CombineDistricts
    \/ FixUnassigned
    \/ SetLocked

Spec == Init /\ [][Next]_vars

---------------------------------------------------------------------------
(* Properties of add_geounits *)

\* The step just taken was a call of `op` that ended as `outcome`.
Did(op, outcome) == last'.op = op /\ last'.outcome = outcome

\* The row of district_id `did` among the districts at `version`.
DistrictAt(rs, did, version) ==
    {d \in get_districts_at_version(rs, version) : d.district_id = did}

\* The geometry district `did` has at `version`; {} when it has no row.
GeomAt(rs, did, version) ==
    UNION {d.geom : d \in DistrictAt(rs, did, version)}

\* District `did` is locked at `version`.
LockedAt(rs, did, version) ==
    \E d \in DistrictAt(rs, did, version) : d.is_locked

\* The rows a step has written: those with a key the table had not handed
\* out before the step.
Written == {r \in rows' : r.id >= nextId}

\* C1: a call of add_geounits that runs to completion (its target is not
\* locked at the base version, and only then) advances plan.version by
\* exactly 1, writes a row for the target, and stamps every row it writes
\* with the new plan.version.
C1_AddAdvancesVersion ==
    [][last'.op = "add_geounits" =>
         /\ (last'.outcome = "done") <=>
                ~ LockedAt(rows, last'.target, last'.version)
         /\ last'.outcome = "done" =>
               /\ plan'.version = plan.version + 1
               /\ \E r \in Written : r.district_id = last'.target
               /\ \A r \in Written : r.version = plan'.version]_vars

\* A completed add_geounits from an older base version that wrote the target
\* row and the row of a district that lost area.
C1_Witness ==
    /\ last.op = "add_geounits" /\ last.outcome = "done"
    /\ last.version < plan.version - 1
    /\ \E r, q \in rows :
          /\ r.version = plan.version /\ q.version = plan.version
          /\ r.district_id = last.target /\ q.district_id # last.target

C3_LockedTargetUntouched ==
    [][(/\ last'.op = "add_geounits"
        /\ LockedAt(rows, last'.target, last'.version))
          => /\ last'.outcome = "refused"
             /\ rows' = rows
             /\ plan' = plan]_vars

\* add_geounits was refused for a locked target at a base version that has
\* newer history, and that history is stored.
C3_Witness ==
    /\ last.op = "add_geounits" /\ last.outcome = "refused"
    /\ last.version < plan.version
    /\ \E r \in rows : r.version > last.version

\* C4: after a completed add_geounits every district locked at the base
\* version has, at the new version, the geometry it had at the base version,
\* and the target has gained exactly the part of the selection outside the
\* locked districts.
C4_LockedUnitsStay ==
    [][Did("add_geounits", "done") =>
         LET before == get_districts_at_version(rows, last'.version)
             lockedGeom == UNION {d.geom : d \in {x \in before : x.is_locked}}
         IN /\ \A d \in before :
                  d.is_locked =>
                     GeomAt(rows', d.district_id, plan'.version) = d.geom
            /\ GeomAt(rows', last'.target, plan'.version) =
                  GeomAt(rows, last'.target, last'.version)
                      \cup (last'.area \ lockedGeom)]_vars

\* A completed add_geounits whose selection reached into a locked district:
\* the target holds a part of the selection, a locked district another.
C4_Witness ==
    /\ last.op = "add_geounits" /\ last.outcome = "done"
    /\ GeomAt(rows, last.target, plan.version) \cap last.area # {}
    /\ \E d \in get_districts_at_version(rows, plan.version) :
          /\ d.is_locked /\ d.version <= last.version
          /\ d.district_id # last.target
          /\ d.geom \cap last.area # {}

\* The number stored for subject s on row r; a missing row counts as 0.
StoredNumber(r, s) == IF s \in DOMAIN r.stats THEN r.stats[s].number ELSE 0

\* The stored numbers of row r are the sums over its base geounits.
StatsMatchGeometry(r) ==
    \A s \in Subjects : StoredNumber(r, s) = SumBase(r.geom, s)

---------------------------------------------------------------------------
(* Properties of the plan as a whole *)

\* The operations that edit the districts of a plan.
Mutations ==
    {"add_geounits", "paste_districts", "combine_districts", "fix_unassigned"}

\* The districts at `version` hold every base geounit exactly once.
Partitioned(rs, version) ==
    \A b \in BaseUnits :
        Cardinality({d \in get_districts_at_version(rs, version) :
                        b \in d.geom}) = 1

\* C5: on a plan edited by add_geounits, combine_districts and
\* fix_unassigned, at every version from min_version to version each base
\* geounit lies in exactly one district, and Unassigned is the complement
\* of the numbered districts.
C5_DistrictsPartition ==
    \A V \in plan.min_version .. plan.version :
        /\ Partitioned(rows, V)
        /\ GeomAt(rows, 0, V) =
              BaseUnits \ UNION {d.geom : d \in {x \in get_districts_at_version(rows, V) : x.district_id # 0}}

\* fix_unassigned has just served two districts at once and left
\* Unassigned without area.
C5_Witness ==
    /\ last.op = "fix_unassigned" /\ last.outcome = "done"
    /\ Cardinality({r \in rows : r.version = plan.version /\ r.district_id # 0}) >= 2
    /\ GeomAt(rows, 0, plan.version) = {}

\* C7: at every version V, get_districts_at_version returns one row for
\* each district_id that has a row of version <= V, the one of the greatest
\* such version, and none for the other district_ids.
C7_LatestRowPerDistrict ==
    \A V \in 0 .. MaxPasteVersion :
        \A did \in {r.district_id : r \in rows} :
            LET stored == {r \in rows : r.district_id = did /\ r.version <= V}
                returned == {d \in get_districts_at_version(rows, V) :
                                d.district_id = did}
            IN IF stored = {} THEN returned = {}
               ELSE /\ Cardinality(returned) = 1
                    /\ \A d \in returned, r \in stored : r.version <= d.version

\* C8: every completed add_geounits, paste_districts, combine_districts and
\* fix_unassigned leaves plan.version greater than it was.
C8_VersionStrictlyIncreases ==
    [][(last'.op \in Mutations /\ last'.outcome = "done")
          => plan'.version > plan.version]_vars

C10_LockedGeometryKept ==
    [][(last'.op \in Mutations /\ last'.outcome = "done")
          => \A d \in get_districts_at_version(rows, last'.version) :
                d.is_locked =>
                   GeomAt(rows', d.district_id, plan'.version) = d.geom]_vars

---------------------------------------------------------------------------
(* Properties of the history: undo limit, purge, previous versions *)

\* The stored versions older than plan.version that are still in reach of
\* an undo: those from min_version on.
UndoSteps(rs, p) ==
    {v \in StoredVersions(rs) : p.min_version <= v /\ v < p.version}

\* C11: after a completed add_geounits that does not keep old versions, at
\* most MAX_UNDOS_DURING_EDIT distinct stored versions older than
\* plan.version remain at or above plan.min_version.
C11_UndoStepsBounded ==
    [][Did("add_geounits", "done") =>
          Cardinality(UndoSteps(rows', plan')) <= MAX_UNDOS_DURING_EDIT]_vars

\* A completed add_geounits has moved min_version up and purged below it,
\* and exactly MAX_UNDOS_DURING_EDIT older versions are left to undo to.
C11_Witness ==
    /\ last.op = "add_geounits" /\ last.outcome = "done"
    /\ plan.min_version > 0
    /\ Cardinality(UndoSteps(rows, plan)) = MAX_UNDOS_DURING_EDIT

\* C12: purge(before=V) with V > 0 deletes, for each district_id, exactly
\* the rows older than the district's greatest row with version <= V; the
\* as-of-V row and the rows with version > V stay, and
\* get_districts_at_version(W) returns after the purge what it returned
\* before, for every W >= V.
C12_PurgeBeforeKeepsSnapshot ==
    [][(Did("purge", "done") /\ last'.version > 0) =>
          LET V == last'.version
              older == {r \in rows :
                          \E d \in rows :
                             /\ d.district_id = r.district_id
                             /\ d.version <= V /\ r.version < d.version}
          IN /\ rows' = rows \ older
             /\ \A r \in rows : r.version > V => r \in rows'
             /\ \A W \in V .. MaxHistoryVersion :
                    get_districts_at_version(rows', W) =
                       get_districts_at_version(rows, W)]_vars

\* purge(before=V) has just removed a row, from a version that no row
\* carries, and has kept a row older than V and a row newer than V.
C12_Witness ==
    /\ last.op = "purge" /\ last.version > 0
    /\ last.deleted > 0
    /\ ~ \E r \in rows : r.version = last.version
    /\ \E r, q \in rows : r.version < last.version /\ q.version > last.version

RECURSIVE NthGreatest(_, _)
\* The (n+1)-th greatest member of the set `versions` of numbers, 0 when
\* it has fewer members.
NthGreatest(versions, n) ==
    IF versions = {} THEN 0
    ELSE LET top == CHOOSE v \in versions : \A w \in versions : w <= v
         IN IF n = 0 THEN top ELSE NthGreatest(versions \ {top}, n - 1)

\* C13: get_nth_previous_version(n) returns the (n+1)-th greatest distinct
\* version among the stored district rows, and 0 when fewer than n+1
\* distinct versions are stored; purge_beyond_nth_step(n) moves min_version
\* to it when it is greater.
C13_NthPreviousVersion ==
    [][Did("purge_beyond_nth_step", "done") =>
          LET n == last'.target
              expected == NthGreatest({r.version : r \in rows}, n)
          IN /\ get_nth_previous_version(rows, n) = expected
             /\ plan'.min_version =
                   IF expected > plan.min_version THEN expected
                   ELSE plan.min_version]_vars

\* purge_beyond_nth_step(1) has just moved min_version to a version whose
\* predecessor number carries no row: the stored versions are discontinuous.
C13_Witness ==
    /\ last.op = "purge_beyond_nth_step" /\ last.target = 1
    /\ plan.min_version > last.version
    /\ plan.min_version + 1 < plan.version
    /\ ~ \E r \in rows : r.version = plan.min_version + 1

---------------------------------------------------------------------------
(* Properties of combine_districts *)

\* The target row and the component rows a call of combine_districts named.
CombineTarget == {r \in rows : r.id = last'.row}
CombineComponents == {r \in rows : r.id \in last'.components}

RECURSIVE NumberOver(_, _)
\* The numbers stored for subject s with the rows `members`, added up.
NumberOver(members, s) ==
    IF members = {} THEN 0
    ELSE LET d == CHOOSE x \in members : TRUE
         IN StoredNumber(d, s) + NumberOver(members \ {d}, s)

\* C14: a completed combine_districts(target, components) from base version
\* V writes a target row at V+1 whose geometry is the union of the target
\* and the components and whose number for every subject is the sum over
\* them, writes for every component (a district other than the target) a
\* row at V+1 with its district_id and an empty geometry, and advances
\* plan.version by 1.
C14_CombineWritesUnion ==
    [][Did("combine_districts", "done") =>
          LET V == last'.version
              members == CombineComponents \cup CombineTarget
          IN /\ \E t \in Written :
                   /\ t.district_id = last'.target
                   /\ t.version = V + 1
                   /\ t.geom = UNION {d.geom : d \in members}
                   /\ \A s \in Subjects :
                         StoredNumber(t, s) = NumberOver(members, s)
             /\ \A c \in CombineComponents :
                   c.district_id # last'.target =>
                      \E e \in Written :
                         /\ e.district_id = c.district_id
                         /\ e.version = V + 1
                         /\ e.geom = {}
             /\ plan'.version = plan.version + 1]_vars

\* A completed combine_districts of a numbered target that had area with a
\* component that had area: the target holds more than one geounit and the
\* component has an empty row at the target's version.
C14_Witness ==
    /\ last.op = "combine_districts" /\ last.outcome = "done"
    /\ last.target # 0 /\ last.components # {}
    /\ \E t, e \in rows :
          /\ t.district_id = last.target /\ t.version = last.version + 1
          /\ Cardinality(t.geom) > 1
          /\ \E o \in rows : o.id = last.row /\ o.geom # {}
          /\ e.district_id # last.target
          /\ e.version = t.version /\ e.geom = {}
          /\ \E o \in rows : /\ o.id \in last.components
                              /\ o.district_id = e.district_id
                              /\ o.geom # {}

\* C15: a combine_districts whose target is locked, or whose target or one
\* of whose components is not a district row of the plan at the base
\* version, fails and leaves the district rows and the plan as they were,
\* the rows newer than the base version included.
C15_CombineFailureKeepsState ==
    [][last'.op = "combine_districts" =>
          LET at_version == get_districts_at_version(rows, last'.version)
          IN (\/ \E t \in CombineTarget : t.is_locked \/ t \notin at_version
              \/ \E c \in CombineComponents : c \notin at_version)
             => /\ last'.outcome = "raised"
                /\ rows' = rows
                /\ plan' = plan]_vars

\* A combine_districts from an older base version has just failed on a
\* component that is a row of a newer version, and the rows newer than the
\* base version are still stored.
C15_Witness ==
    /\ last.op = "combine_districts" /\ last.outcome = "raised"
    /\ last.version < plan.version
    /\ \E c \in rows : c.id \in last.components /\ c.version > last.version
    /\ \E t \in rows : /\ t.id = last.row /\ ~ t.is_locked
                        /\ t \in get_districts_at_version(rows, last.version)

---------------------------------------------------------------------------
(* Properties of paste_districts *)

\* C16: after a completed paste_districts every row the call has pasted
\* carries a district_id that no other district row of the resulting
\* version carries, also when several districts were pasted in one batch:
\* the resulting version has one row per district_id.
C16_PastedIdsUnique ==
    [][Did("paste_districts", "done") =>
          \A d, e \in get_districts_at_version(rows', plan'.version) :
              d.district_id = e.district_id => d = e]_vars

\* The area the locked districts hold at `version`.
LockedAreaAt(rs, version) ==
    UNION {d.geom : d \in {x \in get_districts_at_version(rs, version) : x.is_locked}}

\* C17: a call of paste_districts on a plan with room for the whole batch
\* completes; a district of the batch that is completely covered by locked
\* districts is dropped and no id is returned for it, and every other
\* district of the batch is pasted with exactly its area outside the locked
\* districts.
C17_CoveredPasteDropped ==
    [][(/\ last'.op = "paste_districts"
        /\ Cardinality(get_districts_at_version(rows, last'.version))
              + Len(last'.districts) <= max_districts + 1) =>
          LET V == last'.version
              locked == LockedAreaAt(rows, V)
              batch == last'.districts
              covered == {i \in DOMAIN batch :
                             batch[i] # {} /\ batch[i] \subseteq locked}
          IN /\ last'.outcome = "done"
             /\ last'.pasted = Len(batch) - Cardinality(covered)
             /\ \A i \in DOMAIN batch \ covered :
                   \E p \in Written : /\ p.version = V + 1
                                       /\ p.geom = batch[i] \ locked]_vars

\* C18: after a completed paste_districts no two districts of the resulting
\* version overlap: the unlocked existing districts have lost their overlap
\* with every pasted district, and the districts pasted in one batch do not
\* overlap each other.
C18_PasteLeavesNoOverlap ==
    [][Did("paste_districts", "done") =>
          \A d, e \in get_districts_at_version(rows', plan'.version) :
              d # e => d.geom \cap e.geom = {}]_vars

\* C19: at every version from min_version to version at most max_districts
\* district_ids above 0 belong to a district with a geometry that is not
\* empty (an add_geounits to a district_id that does not exist yet, or a
\* paste, that would make one more fails).
C19_CapacityKept ==
    \A V \in plan.min_version .. plan.version :
        Cardinality({d.district_id :
                        d \in {x \in get_districts_at_version(rows, V) :
                                  x.district_id > 0 /\ x.geom # {}}})
            <= max_districts

---------------------------------------------------------------------------
(* Properties of fix_unassigned *)

\* C20: a call of fix_unassigned for version = plan.version never raises,
\* whatever mutations the plan has been through: it returns its pair, also
\* when the latest mutation did not change the Unassigned district.
C20_FixNeverRaises ==
    [][(last'.op = "fix_unassigned" /\ last'.version = plan.version)
          => last'.outcome # "raised"]_vars

\* C21: after a completed fix_unassigned started at version V no district
\* row has a version strictly between V and the new plan.version, every
\* row the fix has written carries the new plan.version, the districts at V
\* are the ones they were, and one undo step leads back to V: V is the
\* greatest stored version below the new one.
C21_FixIsOneUndoStep ==
    [][Did("fix_unassigned", "done") =>
          LET V == last'.version
          IN /\ plan'.version > V
             /\ \A r \in rows' : ~ (V < r.version /\ r.version < plan'.version)
             /\ \A r \in Written : r.version = plan'.version
             /\ get_districts_at_version(rows', V) =
                   get_districts_at_version(rows, V)
             /\ NthGreatest({r.version : r \in rows'}, 1) = V]_vars

\* The base geounits of the Unassigned district at `version` that lie in a
\* hole: in an Unassigned polygon within the exterior ring of a polygon of
\* one of `districts`.
InHole(rs, version, districts) ==
    LET U == GeomAt(rs, 0, version)
    IN {u \in U : \E up \in Polygons(U), d \in districts :
                      \E p \in Polygons(d.geom) :
                          u \in up /\ up \subseteq Exterior(p)}

\* The base geounits a step has taken out of the Unassigned district of
\* version V.
Reassigned(V) == GeomAt(rows, 0, V) \ GeomAt(rows', 0, plan'.version)

\* Less than FIX_UNASSIGNED_MIN_PERCENT of the base geounits are assigned to
\* a numbered district at version V.
BelowMinPercent(rs, V) ==
    (NumBase - Cardinality(GeomAt(rs, 0, V))) * 100 < FIX_UNASSIGNED_MIN_PERCENT * NumBase

\* The districts fix_unassigned may fill: numbered, unlocked, with area.
Fillable(rs, V) ==
    {d \in get_districts_at_version(rs, V) :
        d.district_id # 0 /\ ~ d.is_locked /\ d.geom # {}}

\* C22: below the minimum percentage of assigned base geounits a call of
\* fix_unassigned reassigns base geounits of holes only (Unassigned polygons
\* within the exterior ring of a district), none by adjacency; and the
\* holes are filled by every call that finds some, whatever the percentage.
C22_HolesOnlyBelowMinPercent ==
    [][(last'.op = "fix_unassigned" /\ last'.outcome # "raised") =>
          LET V == last'.version
              holes == InHole(rows, V, Fillable(rows, V))
          IN /\ (BelowMinPercent(rows, V) /\ last'.outcome = "done")
                   => Reassigned(V) \subseteq holes
             /\ holes # {} =>
                   /\ last'.outcome = "done"
                   /\ holes \subseteq Reassigned(V)
                   /\ \A u \in holes :
                         \E d \in Fillable(rows, V) :
                            /\ u \in InHole(rows, V, {d})
                            /\ u \in GeomAt(rows', d.district_id, plan'.version)]_vars

\* fix_unassigned has filled a hole of a plan that has all its districts
\* and less than the minimum percentage assigned, and has left a base
\* geounit unassigned that borders a district.
C22_Witness ==
    /\ last.op = "fix_unassigned" /\ last.outcome = "done"
    /\ Cardinality(get_districts_at_version(rows, last.version)) - 1 >= max_districts
    /\ BelowMinPercent(rows, last.version)
    /\ InHole(rows, last.version, Fillable(rows, last.version)) # {}
    /\ \E u \in GeomAt(rows, 0, plan.version) :
          \E d \in Fillable(rows, plan.version) :
              \E p \in Polygons(d.geom) : Touches(u, Exterior(p))

\* The districts of `districts` that base geounit u touches from outside.
Touching(u, districts) ==
    {d \in districts : \E p \in Polygons(d.geom) : Touches(u, Exterior(p))}

\* The value of the comparator subject over the area of a district.
ComparatorValue(d) == SumBase(d.geom, FIX_UNASSIGNED_COMPARATOR_SUBJECT)

\* C23: a base geounit that fix_unassigned assigns by adjacency goes to the
\* touching unlocked district with the smallest value of the comparator
\* subject, and among districts of equal value to the one with the lowest
\* district_id.
C23_TieGoesToLowerId ==
    [][Did("fix_unassigned", "done") =>
          LET V == last'.version
              candidates == Fillable(rows, V)
          IN \A u \in Reassigned(V) \ InHole(rows, V, candidates) :
                \E d \in Touching(u, candidates) :
                    /\ u \in GeomAt(rows', d.district_id, plan'.version)
                    /\ \A e \in Touching(u, candidates) :
                          \/ ComparatorValue(d) < ComparatorValue(e)
                          \/ /\ ComparatorValue(d) = ComparatorValue(e)
                             /\ d.district_id <= e.district_id]_vars

---------------------------------------------------------------------------
(* Properties of get_mixed_geounits *)

\* The base geounits of the selection of the call on the side searched:
\* their centroid lies inside the boundary, or outside it.
Region ==
    {b \in last.area : (b \in last.boundary) = last.inside}

C25_MixedReturnsLargest ==
    last.op = "get_mixed_geounits" =>
        \A u \in last.geounit_ids :
            /\ Extent(u) \subseteq Region => u \in last.units
            /\ u[1] # base_geolevel =>
                  ~ ({<<base_geolevel, b>> : b \in Extent(u)} \subseteq last.units)

---------------------------------------------------------------------------
(* Properties of the score tables *)

\* The step just taken was a call of compute of the table `cache` that
\* returned.
Computes(op) == last'.op = op /\ last'.outcome = "done"

\* What C26 asks of a step, for one of the two tables: a returning call
\* for a key without entry calls the score function and stores the score
\* it returns; a call for a key with a stored score returns that score, does
\* not call the score function and leaves the table as it is; and no step
\* changes a stored score.
StoredOnce(op, cache, cacheAfter) ==
    /\ Computes(op) =>
          /\ last'.key \notin DOMAIN cache =>
                /\ last'.scored
                /\ cacheAfter[last'.key] = dumps(last'.score)
          /\ (last'.key \in DOMAIN cache /\ Decodable(cache[last'.key])) =>
                /\ ~ last'.scored
                /\ last'.score = loads(cache[last'.key])
                /\ cacheAfter = cache
    /\ \A k \in DOMAIN cache \cap DOMAIN cacheAfter :
          Decodable(cache[k]) => cacheAfter[k] = cache[k]

\* C26: ComputedDistrictScore.compute and ComputedPlanScore.compute compute
\* the score on the first call for a key and store it; every later call for
\* the key returns the stored score without a call of the score function
\* and without a change of the stored score.
C26_ComputedOnceThenServed ==
    [][/\ StoredOnce("ComputedPlanScore.compute", planscores, planscores')
       /\ StoredOnce("ComputedDistrictScore.compute", districtscores,
                     districtscores')]_vars

\* A district score has just been served from its table, and the table of
\* the plan holds a stored score as well.
C26_Witness ==
    /\ last.op = "ComputedDistrictScore.compute"
    /\ last.outcome = "done" /\ ~ last.scored /\ ~ last.created
    /\ \E k \in DOMAIN planscores : Decodable(planscores[k])

\* What C27 asks of a call, for one of the two tables: a returning call
\* for a key whose stored value does not decode calls the score function
\* and stores the score it returns.
Repaired(op, cache, cacheAfter) ==
    (/\ Computes(op)
     /\ last'.key \in DOMAIN cache
     /\ ~ Decodable(cache[last'.key])) =>
        /\ last'.scored
        /\ Decodable(cacheAfter[last'.key])
        /\ loads(cacheAfter[last'.key]) = last'.score

\* C27: when the stored value of a key cannot be decoded, compute scores
\* again and overwrites the stored value, so that the next call finds an
\* entry that decodes to the score returned; for both tables.
C27_UndecodableIsRepaired ==
    [][/\ Repaired("ComputedPlanScore.compute", planscores, planscores')
       /\ Repaired("ComputedDistrictScore.compute", districtscores,
                   districtscores')]_vars

\* C28: ComputedPlanScore.compute(function, plan, version=V) reads and
\* writes the entry of V and scores the plan at V, for every V from 0 to
\* plan.version.
C28_PlanScoreKeyedByVersion ==
    [][(Computes("ComputedPlanScore.compute") /\ last'.version # None) =>
          LET V == last'.version
          IN /\ last'.key = V
             /\ V \in DOMAIN planscores'
             /\ \A k \in DOMAIN planscores' \ {V} :
                    k \in DOMAIN planscores /\ planscores'[k] = planscores[k]
             /\ last'.scored => last'.score = score_plan(rows, V)]_vars

\* C29: a score ComputedPlanScore.compute returns for a version is the
\* score of the districts now stored at that version, also after
\* add_geounits, paste_districts or combine_districts have purged and
\* rewritten the history above an older version.
C29_PlanScoreNeverStale ==
    [][Computes("ComputedPlanScore.compute") =>
          last'.score = score_plan(rows, last'.key)]_vars

---------------------------------------------------------------------------
(* Properties of concurrent mutations *)

\* A state of the plan without the keys of its rows.
View(db) ==
    [rows |-> {[district_id |-> r.district_id, version |-> r.version,
                geom |-> r.geom, is_locked |-> r.is_locked,
                stats |-> r.stats] : r \in db.rows},
     plan |-> db.plan]

\* The state after the calls of requests p and q, one after the other,
\* on the state both have seen.
Serial(p, q) ==
    Mutate(Mutate(requests[p].seen, requests[p].call), requests[q].call)

\* Both requests have loaded the plan in one state and have finished.
BothFinished ==
    /\ \A p \in Requests : requests[p].pc = "done"
    /\ \A p, q \in Requests : requests[p].seen = requests[q].seen

\* C30: two mutation calls that run at the same time on one plan from one
\* base version leave the state that one of their serial executions
\* leaves: no district_id has two rows of one version, and plan.version
\* has advanced as in the serial execution.
C30_ConcurrentIsSerial ==
    BothFinished =>
        /\ \E p, q \in Requests :
              p # q /\ View(DB) = View(Serial(p, q))
        /\ \A d, e \in rows :
              (d.district_id = e.district_id /\ d.version = e.version)
                  => d = e

---------------------------------------------------------------------------
(* Properties of the statistics under add_geounits *)

\* The ComputedCharacteristic numbers of the district `did` at `version`.
NumbersAt(rs, did, version) ==
    {[s \in Subjects |-> IF s \in DOMAIN d.stats THEN d.stats[s].number ELSE 0] :
        d \in DistrictAt(rs, did, version)}

\* The districts other than `target` that held the whole of `area` at
\* `version`.
Owners(rs, area, target, version) ==
    {d.district_id : d \in {x \in get_districts_at_version(rs, version) :
                              /\ x.district_id # target
                              /\ area # {}
                              /\ area \subseteq x.geom}}

\* The step moves the area of the call before it back to the district `a`
\* that call took it from.
MovesBackTo(a) ==
    /\ last.op = "add_geounits" /\ last.outcome = "done"
    /\ a \in Owners(rows, last.area, last.target, last.version)
    /\ GeomAt(rows, last.target, plan.version) # GeomAt(rows, last.target, last.version)
    /\ Did("add_geounits", "done")
    /\ last'.target = a
    /\ last'.area = last.area
    /\ last'.version = plan.version

EmptyCall(l) == l.op = "add_geounits" /\ "geounit_ids" \in DOMAIN l

\* C32: add_geounits with an empty geounit_ids list adds, modifies and
\* deletes no district row and leaves plan.version (and the rest of the
\* plan) as it was.
C32_EmptyListIsNoOp ==
    [][EmptyCall(last') => rows' = rows /\ plan' = plan]_vars

\* An empty list was passed for a base version behind rows that are stored,
\* on a target that is not locked: the call went past the purge of the
\* newer rows.
C32_Witness ==
    /\ EmptyCall(last)
    /\ last.outcome = "raised"
    /\ \E r \in rows : r.version > last.version
    /\ ~ \E r \in rows : r.is_locked

---------------------------------------------------------------------------
(* Properties of the rows add_geounits leaves alone *)

\* The geometry that changes in the call the step makes: the area named,
\* less the locked sections of the base version.
Incremental ==
    remove_locked(last'.area,
                  locked_geometry(get_districts_at_version(rows, last'.version)))

\* The districts of the base version that the call the step makes neither
\* targets nor touches: they have a geometry and it shares no area with the
\* change.
Bystanders ==
    {d \in get_districts_at_version(rows, last'.version) :
        /\ d.district_id # last'.target
        /\ d.has_geom
        /\ d.geom \cap Incremental = {}}

\* C33 as claimed: in add_geounits, a non-target district that does not
\* intersect the changed area and whose row is behind plan.version is cloned
\* unchanged to plan.version + 1.
C33_BehindIsClonedForward ==
    [][Did("add_geounits", "done") =>
         \A d \in Bystanders :
            d.version < plan.version =>
               \E r \in Written :
                  /\ r.version = plan.version + 1
                  /\ r.district_id = d.district_id
                  /\ r.geom = d.geom /\ r.stats = d.stats
                  /\ r.is_locked = d.is_locked]_vars

\* C33: in add_geounits, a non-target district that does not intersect the
\* changed area and has no newer row left once the rows after the base
\* version are purged is not cloned, however far its row is behind
\* plan.version: the call writes no row for it, and its existing row is the
\* one get_districts_at_version returns for the new plan version.
C33_LatestRowIsNotCloned ==
    [][Did("add_geounits", "done") =>
         \A d \in Bystanders :
            is_latest_version(purge(rows, None, last'.version), d) =>
               /\ \A r \in Written : r.district_id # d.district_id
               /\ d \in get_districts_at_version(rows', plan'.version)]_vars

\* A completed add_geounits left alone a district with area whose row was
\* behind the plan version the call started from.
C33_Witness ==
    /\ last.op = "add_geounits" /\ last.outcome = "done"
    /\ last.version = plan.version - 1
    /\ \E d \in get_districts_at_version(rows, plan.version) :
          /\ d.district_id # last.target
          /\ d.geom # {}
          /\ d.geom \cap last.area = {}
          /\ d.version < plan.version - 1

---------------------------------------------------------------------------
(* Properties of the statistics under every table of subjects *)

\* The position of subject s in the order the query returned.
PositionIn(order, s) == CHOOSE i \in DOMAIN order : order[i] = s

\* C34: the order in which delta_stats and the merge of combine_districts
\* process the subjects has every subject that is the percentage denominator
\* of another subject before that other subject, for every acyclic table of
\* denominators, chains included.
C34_DenominatorsFirst ==
    "order" \in DOMAIN last =>
        \A s \in AllSubjects :
            last.den[s] # None =>
                PositionIn(last.order, last.den[s]) < PositionIn(last.order, s)

\* C35: after delta_stats on a district row, every subject with a percentage
\* denominator that has a row has percentage = number / denominator.number,
\* with the denominator's number as it is after the call, when that number
\* is > 0, and percentage = 0 otherwise; whatever subjects the geounits
\* passed have values for.
C35_PercentageFollowsDenominator ==
    (last.op = "delta_stats" /\ last.outcome = "done") =>
        \A s \in DOMAIN last.stats :
            (last.den[s] # None /\ last.den[s] \in DOMAIN last.stats) =>
                last.stats[s].percentage =
                    IF last.stats[last.den[s]].number > 0
                    THEN Quotient(last.stats[s].number,
                                  last.stats[last.den[s]].number)
                    ELSE 0

\* C36: add_geounits never modifies a stored district row in place: every
\* row with version <= base version stored after the call was stored
\* before it with the same geometry, lock flag and statistics, and
\* get_districts_at_version(base version) returns the same districts after
\* the call as before.
C36_AddCopiesOnWrite ==
    [][Did("add_geounits", "done") =>
         /\ \A r \in rows' : r.version <= last'.version => r \in rows
         /\ get_districts_at_version(rows', last'.version)
                = get_districts_at_version(rows, last'.version)]_vars

\* A completed add_geounits took area from a district: the row of the base
\* version is stored beside the smaller row of the new version.
C36_Witness ==
    /\ last.op = "add_geounits" /\ last.outcome = "done"
    /\ \E r, q \in rows :
          /\ r.version <= last.version
          /\ q.version = plan.version
          /\ q.district_id = r.district_id
          /\ q.district_id # last.target
          /\ q.geom # r.geom
          /\ r \in get_districts_at_version(rows, last.version)

---------------------------------------------------------------------------
(* Properties of the rows paste_districts leaves alone *)

\* C37: paste_districts from base version V leaves every district row with
\* version <= V as it was, also when several districts are pasted in one
\* batch: every such row is stored unchanged after the paste, and
\* get_districts_at_version(V) returns the same districts as before.
C37_PasteCopiesOnWrite ==
    [][Did("paste_districts", "done") =>
         /\ \A r \in rows : r.version <= last'.version => r \in rows'
         /\ get_districts_at_version(rows', last'.version)
                = get_districts_at_version(rows, last'.version)]_vars

---------------------------------------------------------------------------
(* Properties of min_version *)

\* C38: after a completed add_geounits from base version V (with
\* MAX_UNDOS_DURING_EDIT >= 1) plan.min_version <= V and a district row with
\* version = plan.min_version is stored, also when the call creates its
\* target and V is older than the plan version it started from.
C38_BaseVersionStaysReachable ==
    [][Did("add_geounits", "done") =>
         /\ plan'.min_version <= last'.version
         /\ \E r \in rows' : r.version = plan'.min_version]_vars

\* C39: the version get_nth_previous_version returns is a valid past
\* version of the plan in every state it is called in, also after
\* purge(before=...) has advanced min_version: a district row with that
\* version is stored, and get_districts_at_version of it is not empty.
C39_NthPreviousIsValid ==
    [][Did("purge_beyond_nth_step", "done") =>
          LET prever == get_nth_previous_version(rows, last'.target)
          IN /\ \E r \in rows : r.version = prever
             /\ get_districts_at_version(rows, prever) # {}]_vars

---------------------------------------------------------------------------
(* Properties of get_geolevels *)

\* The geolevels in `result` are pairwise distinct, each is followed by the
\* geolevel of its parent row, and the last is the geolevel of a row
\* without a parent; a body that has a row without a parent gets a result
\* that is not empty.
Hierarchy(result, parent) ==
    /\ \A i, j \in 1 .. Len(result) : i # j => result[i] # result[j]
    /\ \A i \in 1 .. Len(result) :
          \E l \in Levels :
             /\ result[i] = glonly(l)
             /\ IF i = Len(result) THEN parent[l] = None
                ELSE parent[l] # None /\ result[i + 1] = glonly(parent[l])
    /\ (\E l \in Levels : parent[l] = None) => Len(result) > 0

\* C40: get_geolevels terminates for every parent relation among the levels
\* of a body (orphans, several parentless levels, several levels with one
\* parent, parent cycles) and returns each level at most once, from the
\* coarsest to the finest, the parentless base level last.
C40_GetGeolevelsTerminates ==
    <>(/\ last.op = "get_geolevels"
       /\ last.outcome = "done"
       /\ Hierarchy(last.result, last.parent))

\* The call has returned a hierarchy of two levels for a body whose third
\* level is its own parent.
C40_Witness ==
    /\ last.op = "get_geolevels" /\ last.outcome = "done"
    /\ Len(last.result) = 2
    /\ \E l \in Levels : last.parent[l] = l

===========================================================================
